---- MODULE Spec2Model ----
(***************************************************************************)
(* Earnings tracker: the worked-day store, the shift catalog and the       *)
(* earnings computations of Dashboard.tsx and Calendar.tsx.                *)
(*                                                                         *)
(* Numbers.  Hours are kept in tenths of an hour (7.3 h = 73), overtime    *)
(* multipliers in whole percent, the base rate in whole currency units.    *)
(* A pay p of the program is kept as p * 1000, so that                     *)
(* baseRate * hours * (1 + overtime/100) is an integer:                    *)
(* baseRate * hours10 * (100 + overtime).  Arithmetic is exact.            *)
(*                                                                         *)
(* Strings that the program transforms (labels, type keys) are sequences   *)
(* of one-character strings; the empty string '' is << >>.                 *)
(***************************************************************************)
EXTENDS Integers, Sequences, FiniteSets, TLC

VARIABLES
    selectedYear,       \* Dashboard state: displayed year
    selectedMonth,      \* Dashboard state: displayed month, 0..11
    workedDays,         \* Dashboard state: year -> list of WorkDay
    baseRate,           \* Dashboard state: hourly base rate
    shiftTypes,         \* Dashboard state: the catalog, a list of ShiftConfig
    selectedShiftType,  \* Calendar state: type key used by a day click
    editingShift,       \* Calendar state: << >> for null, <<type>> otherwise
    isCreating,         \* Calendar state: newShift.isCreating
    isErasing,          \* Calendar state: erase mode
    language,           \* Dashboard state: "no" or "en"
    currencyConfig,     \* Dashboard state: [currency, position]
    catalogOps,         \* counter: catalog mutations so far (bounds the run)
    last,               \* history: the handler that ran last and its inputs
    calc                \* results of the pay functions applied by ApplyPay

vars == <<selectedYear, selectedMonth, workedDays, baseRate, shiftTypes,
          selectedShiftType, editingShift, isCreating, isErasing, language,
          currencyConfig, catalogOps, last, calc>>

(***************************************************************************)
(* Bounds of the model.                                                    *)
(***************************************************************************)
\* most worked-day entries kept in the store, over all years
MaxEntries == 2
\* most entries of the catalog
MaxCatalog == 5
\* most catalog mutations (add, edit that passes validation, delete) in a run
MaxCatalogOps == 2

\* the (year, month) pairs the calendar may display: navigation stops at the
\* edges; the window holds a year change and a leap-year February
NavWindow == {<<2023, 11>>, <<2024, 0>>, <<2024, 1>>}
\* the months around the February of a year that is no leap year
FebruaryWindow == {<<2023, 0>>, <<2023, 1>>, <<2023, 2>>}
\* the dates new Date() may give at construction
StartDates == {<<2024, 0>>}

(***************************************************************************)
(* Strings.                                                                *)
(***************************************************************************)
UpperChars == <<"A","B","C","D","E","F","G","H","I","J","K","L","M",
                "N","O","P","Q","R","S","T","U","V","W","X","Y","Z">>
LowerChars == <<"a","b","c","d","e","f","g","h","i","j","k","l","m",
                "n","o","p","q","r","s","t","u","v","w","x","y","z">>

\* String.prototype.toLowerCase, one character
ToLowerChar(c) ==
    IF \E i \in 1..Len(UpperChars) : UpperChars[i] = c
    THEN LowerChars[CHOOSE i \in 1..Len(UpperChars) : UpperChars[i] = c]
    ELSE c

ToLowerCase(s) == [i \in 1..Len(s) |-> ToLowerChar(s[i])]

\* the characters \s matches, of those the model types
IsSpace(c) == c \in {" ", "\t"}

RECURSIVE SkipSpaces(_)
SkipSpaces(s) ==
    IF s # << >> /\ IsSpace(Head(s)) THEN SkipSpaces(Tail(s)) ELSE s

\* s.replace(/\s+/g, '_'): every maximal run of whitespace becomes one '_'
RECURSIVE ReplaceSpaces(_)
ReplaceSpaces(s) ==
    IF s = << >> THEN << >>
    ELSE IF IsSpace(Head(s))
         THEN <<"_">> \o ReplaceSpaces(SkipSpaces(Tail(s)))
         ELSE <<Head(s)>> \o ReplaceSpaces(Tail(s))

\* String.prototype.trim, for the white space the model types
RECURSIVE TrimEnd(_)
TrimEnd(s) ==
    IF s # << >> /\ IsSpace(s[Len(s)]) THEN TrimEnd(SubSeq(s, 1, Len(s) - 1))
    ELSE s

Trim(s) == TrimEnd(SkipSpaces(s))

\* the type key handleSaveNewShift derives from a label
DeriveType(label) == ReplaceSpaces(ToLowerCase(label))

\* the contents of a numeric text field: a numeral or other text.
NumText(n) == [kind |-> "num", val |-> n]
JunkText == [kind |-> "text", val |-> 0]

\* parseFloat: the number of a numeral, NaN for any other text
ParseFloat(text) ==
    IF text.kind = "num" THEN [nan |-> FALSE, val |-> text.val]
    ELSE [nan |-> TRUE, val |-> 0]

(***************************************************************************)
(* The catalog.                                                            *)
(***************************************************************************)
TypeDay == <<"d","a","y">>
TypeEvening == <<"e","v","e","n","i","n","g">>
TypeNight == <<"n","i","g","h","t">>
TypeOvertime == <<"o","v","e","r","t","i","m","e">>

LabelDayNo == <<"D","a","g"," ","s","k","i","f","t">>
LabelEveningNo == <<"K","v","e","l","d","s"," ","s","k","i","f","t">>
LabelNightNo == <<"N","a","t","t"," ","s","k","i","f","t">>
LabelOvertimeNo == <<"O","v","e","r","t","i","d">>
LabelDayEn == <<"D","a","y"," ","S","h","i","f","t">>
LabelEveningEn == <<"E","v","e","n","i","n","g"," ","S","h","i","f","t">>
LabelNightEn == <<"N","i","g","h","t"," ","S","h","i","f","t">>
LabelOvertimeEn == <<"O","v","e","r","t","i","m","e">>

DEFAULT_SHIFT_TYPES == <<
    [type |-> TypeDay, label |-> LabelDayNo, color |-> "#FFFFFF",
     hours |-> 73, overtimeMultiplier |-> 0,
     startTime |-> "06:00", endTime |-> "14:10", labelEn |-> LabelDayEn],
    [type |-> TypeEvening, label |-> LabelEveningNo, color |-> "#22C55E",
     hours |-> 73, overtimeMultiplier |-> 50,
     startTime |-> "14:00", endTime |-> "22:10", labelEn |-> LabelEveningEn],
    [type |-> TypeNight, label |-> LabelNightNo, color |-> "#2196f3",
     hours |-> 73, overtimeMultiplier |-> 60,
     startTime |-> "22:00", endTime |-> "06:10", labelEn |-> LabelNightEn],
    [type |-> TypeOvertime, label |-> LabelOvertimeNo, color |-> "#EF4444",
     hours |-> 101, overtimeMultiplier |-> 100,
     startTime |-> "11:30", endTime |-> "22:10", labelEn |-> LabelOvertimeEn] >>

\* labels typed into the new-shift form: one that collides with a built-in
\* type key, one with a run of whitespace
LabelDayTyped == <<"D","a","y">>
LabelCustom == <<"X"," "," ","Y">>

\* the initial value of the baseRate state when nothing is persisted
DefaultBaseRate == 300

\* PRESET_COLORS[0], the color of the new-shift form
PresetColor0 == "#22C55E"

\* the type keys of a catalog
TypesOf(catalog) == {catalog[i].type : i \in 1..Len(catalog)}

HasType(catalog, t) == \E i \in 1..Len(catalog) : catalog[i].type = t

\* catalog.find(s => s.type === t): the first match (callers test HasType)
FindShift(catalog, t) ==
    catalog[CHOOSE i \in 1..Len(catalog) :
                /\ catalog[i].type = t
                /\ \A j \in 1..(i - 1) : catalog[j].type # t]

(***************************************************************************)
(* Dates.                                                                  *)
(***************************************************************************)
IsLeapYear(y) == (y % 4 = 0 /\ y % 100 # 0) \/ y % 400 = 0

\* new Date(year, month + 1, 0).getDate(), month in 0..11
DaysInMonth(y, m) ==
    IF m = 1 THEN (IF IsLeapYear(y) THEN 29 ELSE 28)
    ELSE IF m \in {3, 5, 8, 10} THEN 30 ELSE 31

\* new Date(year, month, 0).getDate(): the days of the month before month
DaysInPrevMonth(y, m) ==
    IF m = 0 THEN DaysInMonth(y - 1, 11) ELSE DaysInMonth(y, m - 1)

RECURSIVE DaysBeforeMonth(_, _)
DaysBeforeMonth(y, m) ==
    IF m = 0 THEN 0 ELSE DaysBeforeMonth(y, m - 1) + DaysInMonth(y, m - 1)

\* new Date(year, month, 1).getDay(): 0 = Sunday .. 6 = Saturday, for
\* year >= 2001 (1 January 2001 was a Monday)
FirstDayOfMonth(y, m) ==
    LET n == y - 2001
        days == 365 * n + (n \div 4) - (n \div 100) + (n \div 400)
                + DaysBeforeMonth(y, m)
    IN  (1 + days) % 7

\* Calendar.getCalendarDays: the 42 cells of the displayed grid
GetCalendarDays(y, m) ==
    LET firstDayOfMonth == FirstDayOfMonth(y, m)
        adjustedFirstDay ==
            IF firstDayOfMonth = 0 THEN 6 ELSE firstDayOfMonth - 1
        daysInPrevMonth == DaysInPrevMonth(y, m)
        prevMonthDays ==
            [k \in 1..adjustedFirstDay |->
                [date |-> daysInPrevMonth - (adjustedFirstDay - k),
                 isCurrentMonth |-> FALSE]]
        daysInMonth == DaysInMonth(y, m)
        currentMonthDays ==
            [k \in 1..daysInMonth |-> [date |-> k, isCurrentMonth |-> TRUE]]
        totalDaysShown == 42
        nextMonthDays ==
            [k \in 1..(totalDaysShown - (adjustedFirstDay + daysInMonth)) |->
                [date |-> k, isCurrentMonth |-> FALSE]]
    IN  prevMonthDays \o currentMonthDays \o nextMonthDays

(***************************************************************************)
(* The worked-day store.                                                   *)
(***************************************************************************)
\* prev[year] || []
YearDays(store, y) == IF y \in DOMAIN store THEN store[y] ELSE << >>

\* the number of entries of the store, over all years
RECURSIVE EntryCount(_, _)
EntryCount(store, years) ==
    IF years = {} THEN 0
    ELSE LET y == CHOOSE x \in years : TRUE
         IN  Len(store[y]) + EntryCount(store, years \ {y})

StoreSize(store) == EntryCount(store, DOMAIN store)

\* SetDay removing the day's entries of every month of the year
SetDayOfAnyMonth(store, y, m, day, shiftType) ==
    LET yearDays == IF y \in DOMAIN store THEN store[y] ELSE << >>
        filtered == SelectSeq(yearDays, LAMBDA wd : wd.day # day)
        newYearDays ==
            IF shiftType # << >>
            THEN Append(filtered,
                        [day |-> day, month |-> m, shiftType |-> shiftType])
            ELSE filtered
    IN  [x \in (DOMAIN store) \cup {y} |->
            IF x = y THEN newYearDays ELSE store[x]]

\* SetDay without the filter that removes the day's existing entry
SetDayAppendOnly(store, y, m, day, shiftType) ==
    LET yearDays == IF y \in DOMAIN store THEN store[y] ELSE << >>
        newYearDays ==
            IF shiftType # << >>
            THEN Append(yearDays,
                        [day |-> day, month |-> m, shiftType |-> shiftType])
            ELSE yearDays
    IN  [x \in (DOMAIN store) \cup {y} |->
            IF x = y THEN newYearDays ELSE store[x]]

\* SetDay whose filter runs only when a shift type is assigned
SetDayKeepOnErase(store, y, m, day, shiftType) ==
    LET yearDays == IF y \in DOMAIN store THEN store[y] ELSE << >>
        filtered ==
            SelectSeq(yearDays, LAMBDA wd : ~(wd.day = day /\ wd.month = m))
        newYearDays ==
            IF shiftType # << >>
            THEN Append(filtered,
                        [day |-> day, month |-> m, shiftType |-> shiftType])
            ELSE yearDays
    IN  [x \in (DOMAIN store) \cup {y} |->
            IF x = y THEN newYearDays ELSE store[x]]

\* Dashboard.handleDayClick: the setWorkedDays updater, on the displayed
\* year and month
\* SetDay that takes the entry away when the day holds the same shift type
SetDayToggle(store, y, m, day, shiftType) ==
    LET yearDays == IF y \in DOMAIN store THEN store[y] ELSE << >>
        held == \E i \in 1..Len(yearDays) :
                    /\ yearDays[i].day = day /\ yearDays[i].month = m
                    /\ yearDays[i].shiftType = shiftType
        filtered ==
            SelectSeq(yearDays, LAMBDA wd : ~(wd.day = day /\ wd.month = m))
        newYearDays ==
            IF shiftType # << >> /\ ~held
            THEN Append(filtered,
                        [day |-> day, month |-> m, shiftType |-> shiftType])
            ELSE filtered
    IN  [x \in (DOMAIN store) \cup {y} |->
            IF x = y THEN newYearDays ELSE store[x]]

SetDay(store, y, m, day, shiftType) ==
    LET yearDays == YearDays(store, y)
        filtered ==
            SelectSeq(yearDays, LAMBDA wd : ~(wd.day = day /\ wd.month = m))
        newYearDays ==
            IF shiftType # << >>
            THEN Append(filtered,
                        [day |-> day, month |-> m, shiftType |-> shiftType])
            ELSE filtered
    IN  [x \in (DOMAIN store) \cup {y} |->
            IF x = y THEN newYearDays ELSE store[x]]

\* Dashboard.getWorkedDaysForMonth: day -> shiftType, the last entry of a
\* day winning; a day without an entry is no key of the result
\* GetWorkedDaysForMonth without the filter on the month
GetWorkedDaysOfYear(store, y, m) ==
    LET yearData == YearDays(store, y)
        lastOf(d) == CHOOSE i \in 1..Len(yearData) :
                        /\ yearData[i].day = d
                        /\ \A j \in (i + 1)..Len(yearData) : yearData[j].day # d
    IN  [d \in {yearData[i].day : i \in 1..Len(yearData)} |->
            yearData[lastOf(d)].shiftType]

GetWorkedDaysForMonth(store, y, m) ==
    LET yearData == YearDays(store, y)
        ofMonth == SelectSeq(yearData, LAMBDA wd : wd.month = m)
        lastOf(d) == CHOOSE i \in 1..Len(ofMonth) :
                        /\ ofMonth[i].day = d
                        /\ \A j \in (i + 1)..Len(ofMonth) : ofMonth[j].day # d
    IN  [d \in {ofMonth[i].day : i \in 1..Len(ofMonth)} |->
            ofMonth[lastOf(d)].shiftType]

\* the prop workedDays of the Calendar: currentMonthWorkedDays
CurrentMonthWorkedDays ==
    GetWorkedDaysForMonth(workedDays, selectedYear, selectedMonth)

(***************************************************************************)
(* Earnings.  Every pay is the program's value times 1000.                 *)
(***************************************************************************)
RECURSIVE SumOver(_, _)
SumOver(f, S) ==
    IF S = {} THEN 0
    ELSE LET x == CHOOSE e \in S : TRUE
         IN  f[x] + SumOver(f, S \ {x})

\* the pay of one instance of a shift, as Dashboard.calculateMonthlyEarnings,
\* monthlyData, generateDownloadData and the export summaries compute it
ShiftPayOf(rate, shift) ==
    LET basePayForShift == rate * shift.hours
        overtimeRate ==
            IF shift.overtimeMultiplier > 0 THEN shift.overtimeMultiplier
            ELSE 0
    IN  basePayForShift * (100 + overtimeRate)

\* CalculateShiftEarnings that takes the overtime percentage as a fraction
CalculateShiftEarningsNoPercent(catalog, rate, shiftType) ==
    IF ~HasType(catalog, shiftType) THEN 0
    ELSE LET shift == FindShift(catalog, shiftType)
             basePayForShift == rate * shift.hours
             overtimeRate ==
                 IF shift.overtimeMultiplier > 0
                 THEN 100 * shift.overtimeMultiplier ELSE 0
         IN  basePayForShift * (100 + overtimeRate)

\* Calendar.calculateShiftEarnings
CalculateShiftEarnings(catalog, rate, shiftType) ==
    IF ~HasType(catalog, shiftType) THEN 0
    ELSE LET shift == FindShift(catalog, shiftType)
             basePayForShift == rate * shift.hours
             overtimeRate ==
                 IF shift.overtimeMultiplier > 0
                 THEN shift.overtimeMultiplier ELSE 0
         IN  basePayForShift * (100 + overtimeRate)

\* Calendar.calculateShiftPay
CalculateShiftPay(rate, hours, overtimeMultiplier) ==
    LET basePayForShift == rate * hours
    IN  basePayForShift * (100 + overtimeMultiplier)

\* Calendar.calculateDailyEarnings
CalculateDailyEarnings(catalog, shiftType, rate) ==
    IF ~HasType(catalog, shiftType) THEN 0
    ELSE LET shift == FindShift(catalog, shiftType)
             basePayForShift == rate * shift.hours
         IN  basePayForShift * (100 + shift.overtimeMultiplier)

\* CalculateMonthlyEarnings that pays a shift type it does not find in the
\* catalog as the first catalog entry
CalculateMonthlyEarningsFallback(store, catalog, rate, y, m) ==
    LET monthWorkedDays == GetWorkedDaysForMonth(store, y, m)
        term == [d \in DOMAIN monthWorkedDays |->
                    IF HasType(catalog, monthWorkedDays[d])
                    THEN ShiftPayOf(rate,
                                    FindShift(catalog, monthWorkedDays[d]))
                    ELSE IF catalog # << >> THEN ShiftPayOf(rate, catalog[1])
                    ELSE 0]
    IN  SumOver(term, DOMAIN monthWorkedDays)

\* Dashboard.calculateMonthlyEarnings
CalculateMonthlyEarnings(store, catalog, rate, y, m) ==
    LET monthWorkedDays == GetWorkedDaysForMonth(store, y, m)
        term == [d \in DOMAIN monthWorkedDays |->
                    IF ~HasType(catalog, monthWorkedDays[d]) THEN 0
                    ELSE ShiftPayOf(rate,
                                    FindShift(catalog, monthWorkedDays[d]))]
    IN  SumOver(term, DOMAIN monthWorkedDays)

\* Dashboard.calculateYearlyEarnings
CalculateYearlyEarnings(store, catalog, rate, y) ==
    LET monthly == [i \in 0..11 |->
                       CalculateMonthlyEarnings(store, catalog, rate, y, i)]
    IN  SumOver(monthly, 0..11)

\* Calendar.calculateMonthlyEarnings: the loop over the days of (y, m) reads
\* the prop workedDays, the map of the displayed month
CalendarMonthlyEarnings(monthMap, catalog, rate, y, m) ==
    LET daysInMonth == DaysInMonth(y, m)
        term == [day \in 1..daysInMonth |->
                    IF day \in DOMAIN monthMap /\ monthMap[day] # << >>
                    THEN CalculateShiftEarnings(catalog, rate, monthMap[day])
                    ELSE 0]
    IN  SumOver(term, 1..daysInMonth)

\* Calendar.calculateYearlyEarnings
CalendarYearlyEarnings(monthMap, catalog, rate, y) ==
    LET monthly == [m \in 0..11 |->
                       CalendarMonthlyEarnings(monthMap, catalog, rate, y, m)]
    IN  SumOver(monthly, 0..11)

\* Dashboard.monthlyData[month].shiftData for the year y: an entry for every
\* shift type that occurs in the month; earnings and days grow only when the
\* type is found in the catalog
MonthlyShiftData(store, catalog, rate, y, m) ==
    LET monthWorkedDays == GetWorkedDaysForMonth(store, y, m)
        present == {monthWorkedDays[d] : d \in DOMAIN monthWorkedDays}
        daysOf(t) == {d \in DOMAIN monthWorkedDays : monthWorkedDays[d] = t}
        earned(t) == [d \in daysOf(t) |->
                         ShiftPayOf(rate, FindShift(catalog, t))]
        counted(t) == [d \in daysOf(t) |-> 1]
    IN  [t \in present |->
            IF HasType(catalog, t)
            THEN [earnings |-> SumOver(earned(t), daysOf(t)),
                  days |-> SumOver(counted(t), daysOf(t))]
            ELSE [earnings |-> 0, days |-> 0]]

\* Dashboard.monthlyData[month].total
MonthlyDataTotal(store, catalog, rate, y, m) ==
    LET shiftData == MonthlyShiftData(store, catalog, rate, y, m)
        e == [t \in DOMAIN shiftData |-> shiftData[t].earnings]
    IN  SumOver(e, DOMAIN shiftData)

(***************************************************************************)
(* Construction.                                                           *)
(***************************************************************************)
\* DEFAULT_SHIFT_TYPES.map(def => ({...def, label: lang === 'no' ? def.label
\* : def.labelEn}))
LocalizedDefaults(lang) ==
    [i \in 1..Len(DEFAULT_SHIFT_TYPES) |->
        [DEFAULT_SHIFT_TYPES[i] EXCEPT
            !.label = IF lang = "no" THEN @ ELSE DEFAULT_SHIFT_TYPES[i].labelEn]]

\* a value of localStorage: absent, text JSON.parse rejects, or the text of
\* a value
Absent == [kind |-> "absent", value |-> << >>]
Unparseable == [kind |-> "invalid", value |-> << >>]
Stored(v) == [kind |-> "array", value |-> v]

\* JSON.parse(saved) of an initializer without try/catch throws
JsonParseThrows(saved) == saved.kind = "invalid"

\* LanguageEffect that leaves the color as it is
LanguageEffectKeepColor(prev, lang) ==
    [i \in 1..Len(prev) |->
        IF HasType(DEFAULT_SHIFT_TYPES, prev[i].type)
        THEN LET def == FindShift(DEFAULT_SHIFT_TYPES, prev[i].type)
             IN  [prev[i] EXCEPT
                     !.label = IF lang = "no" THEN def.label ELSE def.labelEn,
                     !.labelEn = def.labelEn]
        ELSE prev[i]]

\* the language effect: the entries of the built-in types get the label of
\* the language, the default color and the default labelEn
LanguageEffect(prev, lang) ==
    [i \in 1..Len(prev) |->
        IF HasType(DEFAULT_SHIFT_TYPES, prev[i].type)
        THEN LET def == FindShift(DEFAULT_SHIFT_TYPES, prev[i].type)
             IN  [prev[i] EXCEPT
                     !.label = IF lang = "no" THEN def.label ELSE def.labelEn,
                     !.color = def.color,
                     !.labelEn = def.labelEn]
        ELSE prev[i]]

\* {...a, ...b}: the properties of a, overridden and extended by those of b
Spread(a, b) ==
    [f \in (DOMAIN a) \cup (DOMAIN b) |-> IF f \in DOMAIN b THEN b[f] ELSE a[f]]

\* the initializer of the shiftTypes state
ShiftTypesInitializer(saved, lang) ==
    IF saved.kind = "absent" THEN LocalizedDefaults(lang)
    ELSE IF saved.kind = "invalid" THEN LocalizedDefaults(lang)
    ELSE LET parsed == saved.value
         IN  IF /\ Len(parsed) = 4
                /\ \A i \in 1..Len(parsed) :
                       parsed[i].type # << >> /\ parsed[i].label # << >>
             THEN [i \in 1..Len(DEFAULT_SHIFT_TYPES) |->
                     LET def == DEFAULT_SHIFT_TYPES[i]
                     IN  IF ~HasType(parsed, def.type)
                         THEN LocalizedDefaults(lang)[i]
                         ELSE [Spread(def, FindShift(parsed, def.type)) EXCEPT
                                  !.label = LocalizedDefaults(lang)[i].label,
                                  !.color = def.color,
                                  !.labelEn = def.labelEn]]
             ELSE parsed

\* the initializer of the baseRate state
BaseRateInitializer(saved) ==
    IF saved.kind = "absent" THEN DefaultBaseRate ELSE saved.value

\* the initializer of the workedDays state
WorkedDaysInitializer(saved) ==
    IF saved.kind = "absent" THEN << >> ELSE saved.value

DefaultCurrencyConfig == [currency |-> <<"k", "r">>, position |-> "after"]

\* the initializer of the currencyConfig state
CurrencyConfigInitializer(saved) ==
    IF saved.kind = "absent" THEN DefaultCurrencyConfig ELSE saved.value

\* localStorage.getItem('language') || 'no'
StoredLanguage(saved) ==
    IF saved.kind = "absent" THEN "no" ELSE saved.value

\* the component function of Dashboard run on what localStorage holds: the
\* initializers in their order; threw tells that one of them threw, in which
\* case no state comes to exist
Construct(persisted) ==
    [threw |-> \/ JsonParseThrows(persisted.workedDays)
               \/ JsonParseThrows(persisted.baseRate)
               \/ JsonParseThrows(persisted.currencyConfig),
     workedDays |-> WorkedDaysInitializer(persisted.workedDays),
     language |-> "no",
     baseRate |-> BaseRateInitializer(persisted.baseRate),
     shiftTypes |-> ShiftTypesInitializer(persisted.shiftTypes,
                                          StoredLanguage(persisted.language)),
     currencyConfig |-> CurrencyConfigInitializer(persisted.currencyConfig)]

\* the state of Dashboard after the effects of the first render: the
\* language effect has run on the constructed catalog
Mounted(persisted) ==
    LET constructed == Construct(persisted)
    IN  [constructed EXCEPT
            !.shiftTypes = LanguageEffect(@, constructed.language)]

\* the catalog a session leaves behind after deleting the day shift
CatalogWithoutDay ==
    SelectSeq(DEFAULT_SHIFT_TYPES, LAMBDA sh : sh.type # TypeDay)

NothingPersisted ==
    [workedDays |-> Absent, shiftTypes |-> Absent, baseRate |-> Absent,
     currencyConfig |-> Absent, language |-> Absent]

\* what localStorage may hold at construction: nothing, or the catalog and
\* the base rate an earlier session saved
PersistedStates ==
    { NothingPersisted,
      [NothingPersisted EXCEPT !.shiftTypes = Stored(CatalogWithoutDay),
                               !.baseRate = Stored(250)] }

\* the state of Dashboard and Calendar after the first render
StateAt(persisted, start) ==
    /\ selectedYear = start[1]
    /\ selectedMonth = start[2]
    /\ ~Construct(persisted).threw
    /\ workedDays = Mounted(persisted).workedDays
    /\ baseRate = Mounted(persisted).baseRate
    /\ shiftTypes = Mounted(persisted).shiftTypes
    /\ language = Mounted(persisted).language
    /\ currencyConfig = Mounted(persisted).currencyConfig
    /\ selectedShiftType = TypeDay
    /\ editingShift = << >>
    /\ isCreating = FALSE
    /\ isErasing = FALSE
    /\ catalogOps = 0

\* the same, new Date() giving one of the dates of the model
StateFrom(persisted) == \E start \in StartDates : StateAt(persisted, start)

InitFrom(persisted) ==
    /\ StateFrom(persisted)
    /\ last = [op |-> "init"]
    /\ calc = [op |-> "none"]

\* the state after construction
Init == \E persisted \in PersistedStates : InitFrom(persisted)

\* the state after construction on a first start
InitFresh == InitFrom(NothingPersisted)

(***************************************************************************)
(* The handlers of the worked-day store and of navigation.                 *)
(***************************************************************************)
calendarVars == <<selectedShiftType, editingShift, isCreating, isErasing>>
settingsVars == <<language, currencyConfig>>
catalogVars == <<shiftTypes, catalogOps>>

\* the days of the displayed month the model clicks: the first and the last
ClickDates(y, m) == {1, DaysInMonth(y, m)}

\* the cells of the displayed grid the model clicks
ClickCells(y, m) ==
    LET cells == GetCalendarDays(y, m)
    IN  {cells[i] : i \in {j \in 1..Len(cells) :
                              cells[j].date \in ClickDates(y, m)}}

\* the shift type a month map holds for a day, '' when it has none
TypeAt(monthMap, day) ==
    IF day \in DOMAIN monthMap THEN monthMap[day] ELSE << >>

\* handleDayClick without the return on a cell of another month
HandleDayClickAnyCell(cell) ==
    LET passed == IF isErasing THEN <<"">>
                  ELSE IF selectedShiftType # << >> THEN <<"set">>
                  ELSE << >>
        shiftType == IF passed = <<"set">> THEN selectedShiftType ELSE << >>
        newStore == IF passed = << >> THEN workedDays
                    ELSE SetDay(workedDays, selectedYear, selectedMonth,
                                cell.date, shiftType)
    IN  /\ StoreSize(newStore) <= MaxEntries
        /\ workedDays' = newStore
        /\ last' = [op |-> "dayClick", date |-> cell.date,
                    isCurrentMonth |-> cell.isCurrentMonth,
                    called |-> passed # << >>,
                    shiftType |-> shiftType,
                    before |-> TypeAt(CurrentMonthWorkedDays, cell.date),
                    prev |-> workedDays]
        /\ UNCHANGED <<settingsVars,
                       selectedYear, selectedMonth, baseRate, catalogVars,
                       calendarVars, calc>>

\* Calendar.handleDayClick, which calls Dashboard.handleDayClick (onDayClick)
HandleDayClick(cell) ==
    LET passed == IF ~cell.isCurrentMonth THEN << >>
                  ELSE IF isErasing THEN <<"">>
                  ELSE IF selectedShiftType # << >> THEN <<"set">>
                  ELSE << >>
        shiftType == IF passed = <<"set">> THEN selectedShiftType ELSE << >>
        newStore == IF passed = << >> THEN workedDays
                    ELSE SetDay(workedDays, selectedYear, selectedMonth,
                                cell.date, shiftType)
    IN  /\ StoreSize(newStore) <= MaxEntries
        /\ workedDays' = newStore
        /\ last' = [op |-> "dayClick", date |-> cell.date,
                    isCurrentMonth |-> cell.isCurrentMonth,
                    called |-> passed # << >>,
                    shiftType |-> shiftType,
                    before |-> TypeAt(CurrentMonthWorkedDays, cell.date),
                    prev |-> workedDays]
        /\ UNCHANGED <<settingsVars,
                       selectedYear, selectedMonth, baseRate, catalogVars,
                       calendarVars, calc>>

DayClick ==
    \E cell \in ClickCells(selectedYear, selectedMonth) : HandleDayClick(cell)

\* handleMonthChange with prev keeping the year when the month wraps
MonthAfterPrevInYear(year, month, direction) ==
    IF direction = "next"
    THEN <<IF month = 11 THEN year + 1 ELSE year,
           IF month = 11 THEN 0 ELSE month + 1>>
    ELSE <<year, IF month = 0 THEN 11 ELSE month - 1>>

\* Calendar.handleMonthChange: the year and the month it passes to
\* onMonthChange
MonthAfter(year, month, direction) ==
    LET newMonth == IF direction = "next"
                    THEN (IF month = 11 THEN 0 ELSE month + 1)
                    ELSE (IF month = 0 THEN 11 ELSE month - 1)
        newYear == IF direction = "next"
                   THEN (IF month = 11 THEN year + 1 ELSE year)
                   ELSE (IF month = 0 THEN year - 1 ELSE year)
    IN  <<newYear, newMonth>>

\* Calendar.handleMonthChange, which calls Dashboard.handleMonthChange
HandleMonthChange(direction) ==
    LET new == MonthAfter(selectedYear, selectedMonth, direction)
        newYear == new[1]
        newMonth == new[2]
    IN  /\ <<newYear, newMonth>> \in NavWindow \cup FebruaryWindow
        /\ selectedMonth' = newMonth
        /\ selectedYear' = newYear
        /\ last' = [op |-> "monthChange", direction |-> direction,
                    from |-> <<selectedYear, selectedMonth>>]
        /\ UNCHANGED <<settingsVars,
                       workedDays, baseRate, catalogVars, calendarVars, calc>>

MonthChange == \E direction \in {"prev", "next"} : HandleMonthChange(direction)

\* the shift type buttons the model presses: those of these types
PressedTypes == {TypeDay, TypeEvening, DeriveType(LabelCustom)}

\* the onClick of a shift type button
SelectShiftType ==
    \E i \in {j \in 1..Len(shiftTypes) : shiftTypes[j].type \in PressedTypes} :
        /\ selectedShiftType' = shiftTypes[i].type
        /\ isErasing' = FALSE
        /\ last' = [op |-> "selectShift", type |-> shiftTypes[i].type]
        /\ UNCHANGED <<settingsVars,
                       selectedYear, selectedMonth, workedDays, baseRate,
                       catalogVars, editingShift, isCreating, calc>>

\* the onClick of the erase button
EraseButton ==
    /\ selectedShiftType' = << >>
    /\ isErasing' = ~isErasing
    /\ last' = [op |-> "eraseButton"]
    /\ UNCHANGED <<settingsVars,
                   selectedYear, selectedMonth, workedDays, baseRate,
                   catalogVars, editingShift, isCreating, calc>>

NextStore == DayClick \/ MonthChange \/ SelectShiftType \/ EraseButton

SpecStore == Init /\ [][NextStore]_vars

\* the cells the model clicks around a February: those of these dates, of
\* the displayed month or of its neighbours in the grid
GridDates == {28, 30}

GridDayClick ==
    LET cells == GetCalendarDays(selectedYear, selectedMonth)
    IN  \E i \in {j \in 1..Len(cells) : cells[j].date \in GridDates} :
            HandleDayClick(cells[i])

\* a first start in January 2023
InitGrid ==
    /\ StateAt(NothingPersisted, <<2023, 0>>)
    /\ last = [op |-> "init"]
    /\ calc = [op |-> "none"]

\* the day shift stays selected unless the erase button is pressed
NextGrid == GridDayClick \/ MonthChange \/ EraseButton

SpecGrid == InitGrid /\ [][NextGrid]_vars

(***************************************************************************)
(* The handlers of the catalog.                                            *)
(***************************************************************************)
storeVars == <<selectedYear, selectedMonth, workedDays>>

\* Dashboard.handleShiftTypesChange
HandleShiftTypesChange(prev, newShiftTypes) == newShiftTypes

\* Dashboard.handleShiftHoursChange: the setShiftTypes updater
HandleShiftHoursChange(prev, shiftType, hours, overtimeMultiplier) ==
    [i \in 1..Len(prev) |->
        IF prev[i].type = shiftType
        THEN [prev[i] EXCEPT !.hours = hours,
                             !.overtimeMultiplier = overtimeMultiplier]
        ELSE prev[i]]

\* Calendar.handleEditStart, on the edit button of a shift
HandleEditStart(shiftType) ==
    /\ editingShift # <<shiftType>>
    /\ editingShift' = IF HasType(shiftTypes, shiftType) THEN <<shiftType>>
                       ELSE editingShift
    /\ last' = [op |-> "editStart", type |-> shiftType]
    /\ UNCHANGED <<settingsVars,
                   storeVars, baseRate, catalogVars, selectedShiftType,
                   isCreating, isErasing, calc>>

EditStart == \E i \in 1..Len(shiftTypes) : HandleEditStart(shiftTypes[i].type)

\* the editor of a shift is rendered, with its delete, save and cancel buttons
EditorShown ==
    editingShift # << >> /\ HasType(shiftTypes, editingShift[1])

\* what the model types into the edit form (label, hours, overtime), the
\* other fields staying as handleEditStart loaded them
EditInputs ==
    LET loaded == FindShift(shiftTypes, editingShift[1]).label
        color == FindShift(shiftTypes, editingShift[1]).color
    IN  { [label |-> loaded, hours |-> NumText(80), ot |-> NumText(0),
           color |-> color],
          [label |-> << >>, hours |-> NumText(80), ot |-> NumText(0),
           color |-> color],
          [label |-> loaded, hours |-> NumText(0), ot |-> NumText(0),
           color |-> color],
          [label |-> loaded, hours |-> NumText(80), ot |-> NumText(-10),
           color |-> color],
          [label |-> loaded, hours |-> JunkText, ot |-> NumText(0),
           color |-> color],
          [label |-> loaded, hours |-> NumText(80), ot |-> JunkText,
           color |-> color] }

\* PRESET_COLORS[8], picked in the edit form
PresetColor8 == "#EC4899"

\* the edit form as handleEditStart loaded it, with another color picked
EditColorInputs ==
    LET shift == FindShift(shiftTypes, editingShift[1])
    IN  { [label |-> shift.label, hours |-> NumText(shift.hours),
           ot |-> NumText(shift.overtimeMultiplier),
           color |-> PresetColor8] }

\* EditValid that accepts zero hours
EditValidZeroHours(hours, overtimeMultiplier) ==
    /\ ~hours.nan /\ hours.val >= 0
    /\ ~overtimeMultiplier.nan /\ overtimeMultiplier.val >= 0

\* the validation of handleEditSave
EditValid(hours, overtimeMultiplier) ==
    /\ ~hours.nan /\ hours.val > 0
    /\ ~overtimeMultiplier.nan /\ overtimeMultiplier.val >= 0

\* Calendar.handleEditSave
HandleEditSave(editValues) ==
    LET hours == ParseFloat(editValues.hours)
        overtimeMultiplier == ParseFloat(editValues.ot)
        valid == EditValid(hours, overtimeMultiplier)
        newShiftTypes ==
            [i \in 1..Len(shiftTypes) |->
                IF shiftTypes[i].type = editingShift[1]
                THEN [shiftTypes[i] EXCEPT
                         !.hours = hours.val,
                         !.label = editValues.label,
                         !.color = editValues.color,
                         !.overtimeMultiplier = overtimeMultiplier.val]
                ELSE shiftTypes[i]]
        \* setShiftTypes(new); onShiftHoursChange(...); onShiftTypesChange(new)
        set1 == HandleShiftTypesChange(shiftTypes, newShiftTypes)
        set2 == HandleShiftHoursChange(set1, editingShift[1], hours.val,
                                       overtimeMultiplier.val)
        set3 == HandleShiftTypesChange(set2, newShiftTypes)
    IN  /\ EditorShown
        /\ valid => catalogOps < MaxCatalogOps
        /\ shiftTypes' = IF editingShift # << >> /\ valid THEN set3
                         ELSE shiftTypes
        /\ catalogOps' = IF valid THEN catalogOps + 1 ELSE catalogOps
        /\ editingShift' = << >>
        /\ last' = [op |-> "editSave", type |-> editingShift[1],
                    label |-> editValues.label, hours |-> hours,
                    ot |-> overtimeMultiplier]
        /\ UNCHANGED <<settingsVars,
                       storeVars, baseRate, selectedShiftType, isCreating,
                       isErasing, calc>>

EditSave ==
    EditorShown /\ \E editValues \in EditInputs : HandleEditSave(editValues)

\* handleEditSave after a change of the color alone
EditSaveColor ==
    EditorShown /\ \E editValues \in EditColorInputs :
                      HandleEditSave(editValues)

\* Calendar.handleEditCancel
HandleEditCancel ==
    /\ EditorShown
    /\ editingShift' = << >>
    /\ last' = [op |-> "editCancel"]
    /\ UNCHANGED <<settingsVars,
                   storeVars, baseRate, catalogVars, selectedShiftType,
                   isCreating, isErasing, calc>>

\* handleDeleteShift without the setIsErasing(true) at its end
HandleDeleteShiftOnly(shiftType) ==
    LET newShiftTypes ==
            SelectSeq(shiftTypes, LAMBDA shift : shift.type # shiftType)
    IN  /\ EditorShown
        /\ editingShift = <<shiftType>>
        /\ catalogOps < MaxCatalogOps
        /\ shiftTypes' = newShiftTypes
        /\ catalogOps' = catalogOps + 1
        /\ last' = [op |-> "deleteShift", type |-> shiftType,
                    before |-> workedDays]
        /\ UNCHANGED <<settingsVars,
                       storeVars, baseRate, selectedShiftType, editingShift,
                       isCreating, isErasing, calc>>

\* Calendar.handleDeleteShift, on the delete button of the shift's editor
HandleDeleteShift(shiftType) ==
    LET newShiftTypes ==
            SelectSeq(shiftTypes, LAMBDA shift : shift.type # shiftType)
    IN  /\ EditorShown
        /\ editingShift = <<shiftType>>
        /\ catalogOps < MaxCatalogOps
        /\ shiftTypes' = newShiftTypes
        /\ catalogOps' = catalogOps + 1
        /\ isErasing' = TRUE
        /\ last' = [op |-> "deleteShift", type |-> shiftType,
                    before |-> workedDays]
        /\ UNCHANGED <<settingsVars,
                       storeVars, baseRate, selectedShiftType, editingShift,
                       isCreating, calc>>

DeleteShift == \E i \in 1..Len(shiftTypes) : HandleDeleteShift(shiftTypes[i].type)

\* Calendar.handleAddNewShift
HandleAddNewShift ==
    /\ ~isCreating
    /\ isCreating' = TRUE
    /\ last' = [op |-> "addNewShift"]
    /\ UNCHANGED <<settingsVars,
                   storeVars, baseRate, catalogVars, selectedShiftType,
                   editingShift, isErasing, calc>>

\* what the model types into the new-shift form
NewShiftInputs ==
    { [label |-> LabelDayTyped, hours |-> NumText(80), ot |-> NumText(150)],
      [label |-> LabelCustom, hours |-> NumText(80), ot |-> NumText(150)],
      [label |-> << >>, hours |-> NumText(80), ot |-> NumText(150)],
      [label |-> LabelCustom, hours |-> NumText(0), ot |-> NumText(150)],
      [label |-> LabelCustom, hours |-> NumText(80), ot |-> NumText(-10)],
      [label |-> LabelCustom, hours |-> JunkText, ot |-> NumText(150)] }

\* the validation of handleSaveNewShift
NewShiftValid(label, hours, overtimeMultiplier) ==
    /\ label # << >>
    /\ ~hours.nan /\ hours.val > 0
    /\ ~overtimeMultiplier.nan /\ overtimeMultiplier.val >= 0

\* Calendar.handleSaveNewShift
HandleSaveNewShift(newShift) ==
    LET hours == ParseFloat(newShift.hours)
        overtimeMultiplier == ParseFloat(newShift.ot)
        valid == NewShiftValid(newShift.label, hours, overtimeMultiplier)
        newShiftType ==
            [type |-> DeriveType(newShift.label), label |-> newShift.label,
             hours |-> hours.val, color |-> PresetColor0,
             overtimeMultiplier |-> overtimeMultiplier.val,
             startTime |-> "", endTime |-> "", labelEn |-> << >>]
        newShiftTypes == Append(shiftTypes, newShiftType)
    IN  /\ isCreating
        /\ valid => (catalogOps < MaxCatalogOps /\ Len(shiftTypes) < MaxCatalog)
        /\ shiftTypes' = IF valid THEN newShiftTypes ELSE shiftTypes
        /\ catalogOps' = IF valid THEN catalogOps + 1 ELSE catalogOps
        /\ isCreating' = FALSE
        /\ last' = [op |-> "saveNewShift", type |-> newShiftType.type,
                    label |-> newShift.label, hours |-> hours,
                    ot |-> overtimeMultiplier]
        /\ UNCHANGED <<settingsVars,
                       storeVars, baseRate, selectedShiftType, editingShift,
                       isErasing, calc>>

SaveNewShift == \E newShift \in NewShiftInputs : HandleSaveNewShift(newShift)

\* Calendar.handleCancelNewShift
HandleCancelNewShift ==
    /\ isCreating
    /\ isCreating' = FALSE
    /\ last' = [op |-> "cancelNewShift"]
    /\ UNCHANGED <<settingsVars,
                   storeVars, baseRate, catalogVars, selectedShiftType,
                   editingShift, isErasing, calc>>

\* the day the catalog runs click: the first of the displayed month
FirstDayClick ==
    \E cell \in {c \in ClickCells(selectedYear, selectedMonth) :
                    c.isCurrentMonth /\ c.date = 1} : HandleDayClick(cell)

NextCatalog ==
    \/ EditStart \/ EditSave \/ HandleEditCancel \/ DeleteShift
    \/ HandleAddNewShift \/ SaveNewShift \/ HandleCancelNewShift
    \/ FirstDayClick

SpecCatalog == InitFresh /\ [][NextCatalog]_vars

\* the erase mode: the clicks of a month, the shift buttons, the erase button
\* and the delete button of the editor
NextErase ==
    \/ DayClick \/ SelectShiftType \/ EraseButton
    \/ EditStart \/ DeleteShift

SpecErase == InitFresh /\ [][NextErase]_vars

(***************************************************************************)
(* The base rate and the rendered amounts.                                 *)
(***************************************************************************)
\* what the model types into the base rate card
RateInputs == {JunkText, NumText(250), NumText(0), NumText(-100)}

\* EarningsCard.handleSave, which calls Dashboard.handleBaseRateChange
HandleBaseRateChange(editValue) ==
    LET newAmount == ParseFloat(editValue)
    IN  /\ baseRate' = IF ~newAmount.nan THEN newAmount.val ELSE baseRate
        /\ last' = [op |-> "baseRateChange", amount |-> newAmount]
        /\ UNCHANGED <<settingsVars,
                       storeVars, catalogVars, calendarVars, calc>>

BaseRateChange == \E editValue \in RateInputs : HandleBaseRateChange(editValue)

\* a render of Dashboard and Calendar: the amounts shown for each catalog
\* entry (calculateShiftPay on its hours and overtime, calculateShiftEarnings
\* and calculateDailyEarnings on its type), the earnings of the displayed
\* month and the chart breakdown of that month
Render ==
    /\ calc' =
          [op |-> "render",
           baseRate |-> baseRate,
           shifts |-> shiftTypes,
           shiftPay |->
               [i \in 1..Len(shiftTypes) |->
                   CalculateShiftPay(baseRate, shiftTypes[i].hours,
                                     shiftTypes[i].overtimeMultiplier)],
           shiftEarnings |->
               [i \in 1..Len(shiftTypes) |->
                   CalculateShiftEarnings(shiftTypes, baseRate,
                                          shiftTypes[i].type)],
           dailyEarnings |->
               [i \in 1..Len(shiftTypes) |->
                   CalculateDailyEarnings(shiftTypes, shiftTypes[i].type,
                                          baseRate)],
           monthWorkedDays |-> CurrentMonthWorkedDays,
           monthlyEarnings |->
               CalculateMonthlyEarnings(workedDays, shiftTypes, baseRate,
                                        selectedYear, selectedMonth),
           shiftData |->
               MonthlyShiftData(workedDays, shiftTypes, baseRate,
                                selectedYear, selectedMonth)]
    /\ last' = [op |-> "render"]
    /\ UNCHANGED <<settingsVars,
                   storeVars, baseRate, catalogVars, calendarVars>>

\* hours and overtime multipliers of a persisted single-shift catalog
PayHours == {10, 73, 80, 101}
PayOvertimes == {-50, 0, 50, 60, 100, 150}

\* a persisted catalog that holds the day shift alone, with the given hours
\* and overtime multiplier (the initializer returns it as parsed)
DayOnlyCatalog(hours, overtimeMultiplier) ==
    << [DEFAULT_SHIFT_TYPES[1] EXCEPT
           !.hours = hours, !.overtimeMultiplier = overtimeMultiplier] >>

\* construction over a persisted single-shift catalog
InitPay ==
    \E hours \in PayHours, overtimeMultiplier \in PayOvertimes :
        InitFrom([NothingPersisted EXCEPT
                     !.shiftTypes =
                         Stored(DayOnlyCatalog(hours, overtimeMultiplier))])

NextPay == FirstDayClick \/ BaseRateChange \/ Render

SpecPay == InitPay /\ [][NextPay]_vars

(***************************************************************************)
(* The achievement symbols of a worked day.                                *)
(***************************************************************************)
\* the symbols of the tiers, by the multiple of the base rate; '' is << >>
Tier25 == <<"fireworks", "party">>
Tier20 == <<"gem", "trophy">>
Tier15 == <<"medal", "moneybag">>
Tier10 == <<"dollar">>

\* Calendar.getAchievementEmojis; the earnings are thousandths
GetAchievementEmojis(dailyEarnings, rate) ==
    IF dailyEarnings >= rate * 25 * 1000 THEN Tier25
    ELSE IF dailyEarnings >= rate * 20 * 1000 THEN Tier20
    ELSE IF dailyEarnings >= rate * 15 * 1000 THEN Tier15
    ELSE IF dailyEarnings >= rate * 10 * 1000 THEN Tier10
    ELSE << >>

\* the render of the cells of the displayed month: the symbols of each
\* worked day
RenderDays ==
    /\ calc' =
          [op |-> "renderDays",
           baseRate |-> baseRate,
           cells |->
               [day \in DOMAIN CurrentMonthWorkedDays |->
                   [dailyEarnings |->
                        CalculateDailyEarnings(shiftTypes,
                                               CurrentMonthWorkedDays[day],
                                               baseRate),
                    emojis |->
                        GetAchievementEmojis(
                            CalculateDailyEarnings(shiftTypes,
                                                   CurrentMonthWorkedDays[day],
                                                   baseRate),
                            baseRate)]]]
    /\ last' = [op |-> "renderDays"]
    /\ UNCHANGED <<settingsVars, storeVars, baseRate, catalogVars,
                   calendarVars>>

\* hours and overtime multipliers of a persisted single-shift catalog whose
\* pay is 9.9 to 25.25 times the base rate
TierHours == {99, 100, 101}
TierOvertimes == {0, 50, 100, 150}

InitTier ==
    \E hours \in TierHours, overtimeMultiplier \in TierOvertimes :
        InitFrom([NothingPersisted EXCEPT
                     !.shiftTypes =
                         Stored(DayOnlyCatalog(hours, overtimeMultiplier))])

NextTier == FirstDayClick \/ BaseRateChange \/ RenderDays

SpecTier == InitTier /\ [][NextTier]_vars

(***************************************************************************)
(* Construction over what localStorage may hold.                           *)
(***************************************************************************)
\* a store an earlier session saved
StoreOneDay == 2024 :> << [day |-> 1, month |-> 0, shiftType |-> TypeDay] >>

\* what each key of localStorage may hold when the page loads
LoadValues ==
    [workedDays : {Absent, Unparseable, Stored(StoreOneDay)},
     shiftTypes : {Absent, Unparseable, Stored(CatalogWithoutDay)},
     baseRate : {Absent, Unparseable, Stored(250)},
     currencyConfig :
         {Absent, Unparseable,
          Stored([currency |-> <<"$">>, position |-> "before"])},
     language : {Absent, Stored("en")}]

\* the page is about to load over some content of localStorage
InitLoad ==
    /\ StateFrom(NothingPersisted)
    /\ \E persisted \in LoadValues :
          /\ last = [op |-> "storage", persisted |-> persisted]
          /\ calc = [op |-> "none"]

\* the component function runs on the content of localStorage
LoadStorage ==
    /\ last.op = "storage"
    /\ calc' = [op |-> "load", persisted |-> last.persisted,
                result |-> Construct(last.persisted)]
    /\ last' = [op |-> "load"]
    /\ UNCHANGED <<settingsVars, storeVars, baseRate, catalogVars,
                   calendarVars>>

NextLoad == LoadStorage

SpecLoad == InitLoad /\ [][NextLoad]_vars

(***************************************************************************)
(* Number formatting.  An amount a of the program is kept as a * 1000, so  *)
(* it has at most three decimals; texts are sequences of characters.       *)
(***************************************************************************)
DigitChars == <<"0", "1", "2", "3", "4", "5", "6", "7", "8", "9">>

IsDigit(c) == \E i \in 1..Len(DigitChars) : DigitChars[i] = c

DigitValue(c) == (CHOOSE i \in 1..Len(DigitChars) : DigitChars[i] = c) - 1

\* the decimal digits of a natural number
RECURSIVE Digits(_)
Digits(n) ==
    IF n < 10 THEN <<DigitChars[n + 1]>>
    ELSE Digits(n \div 10) \o <<DigitChars[(n % 10) + 1]>>

\* String.prototype.padStart(n, '0')
RECURSIVE PadStart(_, _)
PadStart(s, n) == IF Len(s) >= n THEN s ELSE PadStart(<<"0">> \o s, n)

\* the digits in groups of three from the right, sep between the groups
RECURSIVE GroupThousands(_, _)
GroupThousands(digs, sep) ==
    IF Len(digs) <= 3 THEN digs
    ELSE GroupThousands(SubSeq(digs, 1, Len(digs) - 3), sep)
           \o <<sep>> \o SubSeq(digs, Len(digs) - 2, Len(digs))

\* the no-break space nb-NO groups with, one character
Nbsp == "nbsp"

Pow10(d) == IF d = 0 THEN 1 ELSE IF d = 1 THEN 10 ELSE IF d = 2 THEN 100 ELSE 1000

\* toLocaleString(locale, {minimumFractionDigits: d, maximumFractionDigits:
\* d}) with d <= 3: the amount rounded to d decimals, half away from zero
FixedLocaleString(amount, d, groupSep, decSep, minus) ==
    LET abs == IF amount < 0 THEN -amount ELSE amount
        unit == Pow10(3 - d)
        q == (abs + (unit \div 2)) \div unit
        whole == q \div Pow10(d)
        fraction == q % Pow10(d)
    IN  (IF amount < 0 /\ q # 0 THEN <<minus>> ELSE << >>)
        \o GroupThousands(Digits(whole), groupSep)
        \o (IF d = 0 THEN << >>
            ELSE <<decSep>> \o PadStart(Digits(fraction), d))

\* the decimals of an amount without the trailing zeros
RECURSIVE StripZeros(_)
StripZeros(digs) ==
    IF digs # << >> /\ digs[Len(digs)] = "0"
    THEN StripZeros(SubSeq(digs, 1, Len(digs) - 1))
    ELSE digs

\* toLocaleString(locale): no decimals required, at most three shown
DefaultLocaleString(amount, groupSep, decSep, minus) ==
    LET abs == IF amount < 0 THEN -amount ELSE amount
        fraction == StripZeros(PadStart(Digits(abs % 1000), 3))
    IN  (IF amount < 0 THEN <<minus>> ELSE << >>)
        \o GroupThousands(Digits(abs \div 1000), groupSep)
        \o (IF fraction = << >> THEN << >> ELSE <<decSep>> \o fraction)

EnUsFixed(amount, d) == FixedLocaleString(amount, d, ",", ".", "-")
NbNoFixed(amount, d) == FixedLocaleString(amount, d, Nbsp, ",", "minus")
EnUsDefault(amount) == DefaultLocaleString(amount, ",", ".", "-")
NbNoDefault(amount) == DefaultLocaleString(amount, Nbsp, ",", "minus")

\* s.replace(/c/g, to) for the characters of a set; to is a text
RECURSIVE ReplaceAll(_, _, _)
ReplaceAll(s, chars, to) ==
    IF s = << >> THEN << >>
    ELSE (IF Head(s) \in chars THEN to ELSE <<Head(s)>>)
           \o ReplaceAll(Tail(s), chars, to)

\* s.replace(c, to): the first occurrence alone
RECURSIVE ReplaceFirst(_, _, _)
ReplaceFirst(s, c, to) ==
    IF s = << >> THEN << >>
    ELSE IF Head(s) = c THEN to \o Tail(s)
    ELSE <<Head(s)>> \o ReplaceFirst(Tail(s), c, to)

\* the characters \s matches in a formatted number
WhiteSpace == {" ", "\t", "\n", Nbsp}

\* Number.isInteger
IsInteger(amount) == amount % 1000 = 0

\* the value of the leading digits of a text, and the rest of the text
RECURSIVE LeadingDigits(_, _, _)
LeadingDigits(s, value, count) ==
    IF s # << >> /\ IsDigit(Head(s))
    THEN LeadingDigits(Tail(s), 10 * value + DigitValue(Head(s)), count + 1)
    ELSE [value |-> value, count |-> count, rest |-> s]

\* parseFloat of a text of digits with an optional point and decimals (at
\* most three, as the formatted amounts have): the number before the first
\* character that does not belong to it, NaN without a leading digit
ParseFloatText(s) ==
    LET whole == LeadingDigits(s, 0, 0)
        decimals == IF whole.rest # << >> /\ Head(whole.rest) = "."
                    THEN LeadingDigits(Tail(whole.rest), 0, 0)
                    ELSE [value |-> 0, count |-> 0, rest |-> << >>]
    IN  IF whole.count = 0 THEN [nan |-> TRUE, val |-> 0]
        ELSE [nan |-> FALSE,
              val |-> whole.value * 1000
                        + decimals.value * Pow10(3 - decimals.count)]

\* Dashboard.formatAmount
FormatAmount(amount, config) ==
    LET isWhole == IsInteger(amount)
        formattedNumber ==
            ReplaceAll(EnUsFixed(amount, IF isWhole THEN 0 ELSE 2),
                       {","}, <<" ">>)
    IN  IF config.position = "before" THEN config.currency \o formattedNumber
        ELSE formattedNumber \o <<" ">> \o config.currency

(***************************************************************************)
(* The CSV export: the rows of generateDownloadData.                       *)
(***************************************************************************)
\* month: number | null
NullMonth == -1

\* date.toLocaleDateString('en-US', {weekday: 'short'}), by getDay()
WeekdayNames == <<"Sun", "Mon", "Tue", "Wed", "Thu", "Fri", "Sat">>

\* new Date(year, m, day).getDay()
DayOfWeek(y, m, day) == (FirstDayOfMonth(y, m) + day - 1) % 7

\* getShiftLabel: the fixed names of the built-in types, else the label
\* without its non-ASCII characters (the labels of the model have none),
\* trimmed
GetShiftLabel(shift, lang) ==
    IF lang = "no" /\ shift.type = TypeDay THEN LabelDayNo
    ELSE IF lang = "no" /\ shift.type = TypeEvening THEN LabelEveningNo
    ELSE IF lang = "no" /\ shift.type = TypeNight THEN LabelNightNo
    ELSE IF lang = "no" /\ shift.type = TypeOvertime THEN LabelOvertimeNo
    ELSE IF lang # "no" /\ shift.type = TypeDay THEN LabelDayEn
    ELSE IF lang # "no" /\ shift.type = TypeEvening THEN LabelEveningEn
    ELSE IF lang # "no" /\ shift.type = TypeNight THEN LabelNightEn
    ELSE IF lang # "no" /\ shift.type = TypeOvertime THEN LabelOvertimeEn
    ELSE Trim(shift.label)

\* the text 'undefined-undefined', in the pieces of `${start}-${end}`
UndefinedWorkTime == <<"undefined", "-", "undefined">>

\* shift.startTime && shift.endTime ? `${startTime}-${endTime}`
\*                                   : 'undefined-undefined'
\* WorkTimeOf with the placeholder for a shift without both times alone
WorkTimeOfBothAbsent(shift) ==
    IF shift.startTime = "" /\ shift.endTime = ""
    THEN UndefinedWorkTime
    ELSE <<shift.startTime, "-", shift.endTime>>

WorkTimeOf(shift) ==
    IF shift.startTime # "" /\ shift.endTime # ""
    THEN <<shift.startTime, "-", shift.endTime>>
    ELSE UndefinedWorkTime

\* Number.prototype.toString of an amount that is not negative
NumberToString(amount) ==
    LET fraction == StripZeros(PadStart(Digits(amount % 1000), 3))
    IN  Digits(amount \div 1000)
        \o (IF fraction = << >> THEN << >> ELSE <<".">> \o fraction)

\* shift.hours.toString(), the hours being tenths
HoursToString(hours) == NumberToString(hours * 100)

\* the English amount of the export: no decimals for a whole amount, else
\* two; a space between the thousands, a comma before the decimals
EnglishAmount(amount) ==
    IF IsInteger(amount)
    THEN ReplaceAll(EnUsFixed(amount, 0), {","}, <<" ">>)
    ELSE ReplaceFirst(ReplaceAll(EnUsFixed(amount, 2), {","}, <<" ">>),
                      ".", <<",">>)

\* amount.toLocaleString('nb-NO').replace(/\s/g, ' ')
NorwegianAmount(amount) == ReplaceAll(NbNoDefault(amount), WhiteSpace, <<" ">>)

\* the earnings field of a row of generateDownloadData
RowEarnings(dailyEarnings, lang) ==
    IF lang = "en"
    THEN LET earningsNum ==
                 ParseFloatText(
                     ReplaceFirst(ReplaceAll(NumberToString(dailyEarnings),
                                             {" "}, << >>),
                                  ",", <<".">>))
         IN  IF earningsNum.nan THEN << >>
             ELSE EnglishAmount(earningsNum.val)
    ELSE NorwegianAmount(dailyEarnings)

\* the days of a set in ascending order, as a loop from day to lastDay
\* meets them
RECURSIVE Ascending(_, _, _)
Ascending(days, day, lastDay) ==
    IF day > lastDay THEN << >>
    ELSE (IF day \in days THEN <<day>> ELSE << >>)
           \o Ascending(days, day + 1, lastDay)

\* RowsOfMonth with a row of the first catalog entry for an orphaned day
RowsOfMonthWithOrphans(year, m, lang, catalog, rate, store) ==
    LET daysInMonth == DaysInMonth(year, m)
        monthData == GetWorkedDaysForMonth(store, year, m)
        kept == {day \in DOMAIN monthData : monthData[day] # << >>}
        days == Ascending(kept, 1, daysInMonth)
        row(day) ==
            LET shift == IF HasType(catalog, monthData[day])
                         THEN FindShift(catalog, monthData[day])
                         ELSE catalog[1]
                dailyEarnings == ShiftPayOf(rate, shift)
            IN  [day |-> day, month |-> m, shiftType |-> shift.type,
                 dailyEarnings |-> dailyEarnings,
                 date |-> PadStart(Digits(m + 1), 2) \o <<"/">>
                            \o PadStart(Digits(day), 2) \o <<"/">>
                            \o Digits(year),
                 dayOfWeek |-> WeekdayNames[DayOfWeek(year, m, day) + 1],
                 shiftLabel |-> GetShiftLabel(shift, lang),
                 workTime |-> WorkTimeOf(shift),
                 hours |-> HoursToString(shift.hours),
                 earnings |-> RowEarnings(dailyEarnings, lang)]
    IN  [i \in 1..Len(days) |-> row(days[i])]

\* the rows generateDownloadData pushes for the month m
RowsOfMonth(year, m, lang, catalog, rate, store) ==
    LET daysInMonth == DaysInMonth(year, m)
        monthData == GetWorkedDaysForMonth(store, year, m)
        kept == {day \in DOMAIN monthData :
                    /\ monthData[day] # << >>
                    /\ HasType(catalog, monthData[day])}
        days == Ascending(kept, 1, daysInMonth)
        row(day) ==
            LET shift == FindShift(catalog, monthData[day])
                dailyEarnings == ShiftPayOf(rate, shift)
            IN  [day |-> day, month |-> m, shiftType |-> shift.type,
                 dailyEarnings |-> dailyEarnings,
                 date |-> PadStart(Digits(m + 1), 2) \o <<"/">>
                            \o PadStart(Digits(day), 2) \o <<"/">>
                            \o Digits(year),
                 dayOfWeek |-> WeekdayNames[DayOfWeek(year, m, day) + 1],
                 shiftLabel |-> GetShiftLabel(shift, lang),
                 workTime |-> WorkTimeOf(shift),
                 hours |-> HoursToString(shift.hours),
                 earnings |-> RowEarnings(dailyEarnings, lang)]
    IN  [i \in 1..Len(days) |-> row(days[i])]

\* the rows of the months m..monthEnd
RECURSIVE RowsOfMonths(_, _, _, _, _, _, _)
RowsOfMonths(year, m, monthEnd, lang, catalog, rate, store) ==
    IF m > monthEnd THEN << >>
    ELSE RowsOfMonth(year, m, lang, catalog, rate, store)
           \o RowsOfMonths(year, m + 1, monthEnd, lang, catalog, rate, store)

\* Dashboard.generateDownloadData
GenerateDownloadData(year, month, lang, catalog, rate, store) ==
    LET monthStart == IF month # NullMonth THEN month ELSE 0
        monthEnd == IF month # NullMonth THEN month ELSE 11
    IN  RowsOfMonths(year, monthStart, monthEnd, lang, catalog, rate, store)

(***************************************************************************)
(* The CSV export: the summary of a month and the file.  The content of    *)
(* the file is a sequence of tokens: a line of the file is one record, a   *)
(* line break is the record Newline.                                       *)
(***************************************************************************)
Newline == [kind |-> "newline"]
Bom == [kind |-> "bom"]

\* strings.join(sep), on texts that are sequences
RECURSIVE JoinText(_, _)
JoinText(strings, sep) ==
    IF strings = << >> THEN << >>
    ELSE IF Len(strings) = 1 THEN strings[1]
    ELSE strings[1] \o sep \o JoinText(Tail(strings), sep)

\* String.prototype.trim on the content of the file: line breaks are white
\* space
RECURSIVE TrimContentEnd(_)
TrimContentEnd(content) ==
    IF content # << >> /\ content[Len(content)] = Newline
    THEN TrimContentEnd(SubSeq(content, 1, Len(content) - 1))
    ELSE content

RECURSIVE TrimContentStart(_)
TrimContentStart(content) ==
    IF content # << >> /\ Head(content) = Newline
    THEN TrimContentStart(Tail(content))
    ELSE content

TrimContent(content) == TrimContentEnd(TrimContentStart(content))

\* s.split(c)
RECURSIVE SplitOn(_, _, _)
SplitOn(s, c, current) ==
    IF s = << >> THEN <<current>>
    ELSE IF Head(s) = c THEN <<current>> \o SplitOn(Tail(s), c, << >>)
    ELSE SplitOn(Tail(s), c, Append(current, Head(s)))

\* the words /kr|NOK|USD|\$/ matches
CurrencyWords == {<<"k", "r">>, <<"N", "O", "K">>, <<"U", "S", "D">>, <<"$">>}

IsPrefix(word, s) == Len(word) <= Len(s) /\ SubSeq(s, 1, Len(word)) = word

\* s.replace(/kr|NOK|USD|\$/g, '')
RECURSIVE RemoveCurrencyWords(_)
RemoveCurrencyWords(s) ==
    IF s = << >> THEN << >>
    ELSE IF \E word \in CurrencyWords : IsPrefix(word, s)
    THEN LET word == CHOOSE w \in CurrencyWords : IsPrefix(w, s)
         IN  RemoveCurrencyWords(SubSeq(s, Len(word) + 1, Len(s)))
    ELSE <<Head(s)>> \o RemoveCurrencyWords(Tail(s))

\* the currency before the text, or after it behind a space
WithCurrency(text, config) ==
    IF config.position = "before" THEN config.currency \o text
    ELSE text \o <<" ">> \o config.currency

\* the amount of a summary line or of a totals line
LocalizedAmount(amount, lang) ==
    IF lang = "en" THEN EnglishAmount(amount) ELSE NorwegianAmount(amount)

\* shiftSummary and totalEarnings of a month: the fold over the entries of
\* monthWorkedDays; the summary keeps the order in which its keys were
\* created (type keys that are not numerals)
RECURSIVE SummaryFold(_, _, _)
SummaryFold(days, monthWorkedDays, acc) ==
    IF days = << >> THEN acc
    ELSE LET shiftType == monthWorkedDays[Head(days)]
         IN  IF ~HasType(shiftTypes, shiftType)
             THEN SummaryFold(Tail(days), monthWorkedDays, acc)
             ELSE LET shift == FindShift(shiftTypes, shiftType)
                      dailyEarnings == ShiftPayOf(baseRate, shift)
                      created ==
                          IF \E i \in 1..Len(acc.summary) :
                                 acc.summary[i].type = shiftType
                          THEN acc.summary
                          ELSE Append(acc.summary,
                                      [type |-> shiftType, hours |-> 0,
                                       earnings |-> 0,
                                       overtime |-> shift.overtimeMultiplier])
                      added ==
                          [i \in 1..Len(created) |->
                              IF created[i].type = shiftType
                              THEN [created[i] EXCEPT
                                       !.hours = @ + shift.hours,
                                       !.earnings = @ + dailyEarnings]
                              ELSE created[i]]
                  IN  SummaryFold(Tail(days), monthWorkedDays,
                                  [summary |-> added,
                                   total |-> acc.total + dailyEarnings])

ShiftSummaryOf(monthWorkedDays) ==
    SummaryFold(Ascending(DOMAIN monthWorkedDays, 1, 31), monthWorkedDays,
                [summary |-> << >>, total |-> 0])

shiftTypeOrder == <<TypeDay, TypeOvertime, TypeEvening, TypeNight>>

LabelDaySummaryEn == <<"D","a","y"," ","s","h","i","f","t">>
LabelEveningSummaryEn == <<"E","v","e","n","i","n","g"," ","s","h","i","f","t">>
LabelNightSummaryEn == <<"N","i","g","h","t"," ","s","h","i","f","t">>

\* shiftTypeLabels[type]
ShiftTypeLabel(type) ==
    IF type = TypeDay
    THEN (IF language = "no" THEN LabelDayNo ELSE LabelDaySummaryEn)
    ELSE IF type = TypeOvertime
    THEN (IF language = "no" THEN LabelOvertimeNo ELSE LabelOvertimeEn)
    ELSE IF type = TypeEvening
    THEN (IF language = "no" THEN LabelEveningNo ELSE LabelEveningSummaryEn)
    ELSE IF type = TypeNight
    THEN (IF language = "no" THEN LabelNightNo ELSE LabelNightSummaryEn)
    ELSE type

\* summaryRows of a month: an empty line, the overview line, one line for
\* each key of the summary, the totals line
SummaryRows(month, shiftSummary, totalEarnings) ==
    LET keys == [i \in 1..Len(shiftSummary) |-> shiftSummary[i].type]
        inOrder(t) == \E i \in 1..Len(shiftTypeOrder) : shiftTypeOrder[i] = t
        order == shiftTypeOrder \o SelectSeq(keys, LAMBDA t : ~inOrder(t))
        present == SelectSeq(order, LAMBDA t : HasType(shiftSummary, t))
        line(t) ==
            LET entry == FindShift(shiftSummary, t)
                hours == IF language = "no" THEN NbNoFixed(entry.hours * 100, 1)
                         ELSE EnUsFixed(entry.hours * 100, 1)
                label == ShiftTypeLabel(t)
                           \o (IF entry.overtime > 0
                               THEN <<" ", "(">> \o Digits(entry.overtime)
                                      \o <<"%", ")">>
                               ELSE IF t = TypeDay
                               THEN <<" ", "(", "N", "o", " ", "O", "T", ")">>
                               ELSE << >>)
            IN  [kind |-> "summary", type |-> t, label |-> label,
                 hours |-> hours,
                 unit |-> IF language = "no" THEN "timer" ELSE "hours",
                 earnings |-> WithCurrency(LocalizedAmount(entry.earnings,
                                                           language),
                                           currencyConfig),
                 amount |-> entry.earnings]
    IN  << << >>, <<[kind |-> "overview", month |-> month]>> >>
        \o [i \in 1..Len(present) |-> <<line(present[i])>>]
        \o << <<[kind |-> "total",
                 text |-> TrimEnd(WithCurrency(
                              LocalizedAmount(totalEarnings, language),
                              currencyConfig)),
                 amount |-> totalEarnings]>> >>

\* the line of the file made of a row of generateDownloadData
CsvRow(row) ==
    LET parts == SplitOn(row.date, "/", << >>)
        date == IF language = "no"
                THEN PadStart(parts[2], 2) \o <<".">> \o PadStart(parts[1], 2)
                       \o <<".">> \o parts[3]
                ELSE row.date
        workTime ==
            IF row.workTime = UndefinedWorkTime
            THEN (IF language = "no"
                  THEN <<"ikke definert", " - ", "ikke definert">>
                  ELSE <<"not defined", " - ", "not defined">>)
            ELSE row.workTime
        stripped == Trim(RemoveCurrencyWords(row.earnings))
        earningsNum ==
            ParseFloatText(ReplaceFirst(ReplaceAll(stripped, {" "}, << >>),
                                        ",", <<".">>))
        earnings == IF language = "en" /\ ~earningsNum.nan
                    THEN EnglishAmount(earningsNum.val)
                    ELSE stripped
        dayOfWeekMap == [Mon |-> "Man", Tue |-> "Tir", Wed |-> "Ons",
                         Thu |-> "Tor", Fri |-> "Fre", Sat |-> "Lor",
                         Sun |-> "Son"]
        dayOfWeek == IF language = "no" /\ row.dayOfWeek \in DOMAIN dayOfWeekMap
                     THEN dayOfWeekMap[row.dayOfWeek]
                     ELSE row.dayOfWeek
    IN  [kind |-> "row", day |-> row.day, month |-> row.month,
         shiftType |-> row.shiftType, dailyEarnings |-> row.dailyEarnings,
         date |-> date, dayOfWeek |-> dayOfWeek,
         shiftLabel |-> row.shiftLabel, workTime |-> workTime,
         hours |-> row.hours,
         earnings |-> WithCurrency(earnings, currencyConfig)]

\* the block of a month in the file: the header and the rows, then the
\* summary
MonthContent(csvRows, summaryRows) ==
    JoinText([i \in 1..Len(csvRows) |-> <<csvRows[i]>>], <<Newline>>)
      \o <<Newline>> \o JoinText(summaryRows, <<Newline>>)

\* what the export has built for a month once the summary is folded
MonthBuilt(month, rows, monthWorkedDays, folded, csvRows) ==
    [month |-> month, rows |-> rows, csvRows |-> csvRows,
     monthWorkedDays |-> monthWorkedDays,
     shiftSummary |-> folded.summary,
     totalEarnings |-> folded.total,
     summaryRows |-> SummaryRows(month, folded.summary, folded.total),
     content |-> MonthContent(csvRows,
                              SummaryRows(month, folded.summary,
                                          folded.total))]

\* csvRows: the header line and the lines of the rows
CsvRows(rows) ==
    <<[kind |-> "header"]>> \o [i \in 1..Len(rows) |-> CsvRow(rows[i])]

\* what the export builds for one month of a year: the rows, the summary,
\* the total and the text of the block
MonthExport(year, month) ==
    MonthBuilt(month,
               GenerateDownloadData(year, month, language, shiftTypes,
                                    baseRate, workedDays),
               GetWorkedDaysForMonth(workedDays, year, month),
               ShiftSummaryOf(GetWorkedDaysForMonth(workedDays, year, month)),
               CsvRows(GenerateDownloadData(year, month, language, shiftTypes,
                                            baseRate, workedDays)))

\* the month loop of handleYearlyDownload: the months without worked days
\* are skipped
RECURSIVE YearMonths(_, _)
YearMonths(year, month) ==
    IF month > 11 THEN << >>
    ELSE (IF DOMAIN GetWorkedDaysForMonth(workedDays, year, month) = {}
          THEN << >> ELSE <<MonthExport(year, month)>>)
           \o YearMonths(year, month + 1)

\* yearSummary: the line of the grand total
YearSummary(year, yearlyTotal) ==
    TrimContent(<<Newline, Newline, Newline,
                  [kind |-> "yearTotal", year |-> year,
                   text |-> TrimEnd(WithCurrency(
                                LocalizedAmount(yearlyTotal, language),
                                currencyConfig)),
                   amount |-> yearlyTotal]>>)

\* the file of a year, of the blocks of its months and its total
YearBuilt(year, months, yearlyTotal) ==
    [months |-> months, yearlyTotal |-> yearlyTotal,
     csvContent |-> <<Bom>>
                      \o JoinText([i \in 1..Len(months) |-> months[i].content],
                                  <<Newline, Newline>>)
                      \o <<Newline, Newline, Newline>>
                      \o YearSummary(year, yearlyTotal)]

\* YearlyTotal that takes the total of the first month alone
YearlyTotalOfFirst(months) ==
    IF months = << >> THEN 0 ELSE months[1].totalEarnings

\* yearlyTotal: the totals of the months added up
YearlyTotal(months) ==
    SumOver([i \in 1..Len(months) |-> months[i].totalEarnings],
            1..Len(months))

YearOfMonths(year, months) == YearBuilt(year, months, YearlyTotal(months))

\* the file of handleYearlyDownload
YearlyExport(year) == YearOfMonths(year, YearMonths(year, 0))

\* the snapshot of the state an export was made from
ExportedFrom ==
    [workedDays |-> workedDays, shiftTypes |-> shiftTypes,
     baseRate |-> baseRate, language |-> language,
     currencyConfig |-> currencyConfig]

\* the record of a download: what was built and the file
Downloaded(op, year, export, csvContent) ==
    /\ calc' = [op |-> op, year |-> year, from |-> ExportedFrom,
                export |-> export, csvContent |-> csvContent]
    /\ last' = [op |-> op]
    /\ UNCHANGED <<settingsVars, storeVars, baseRate, catalogVars,
                   calendarVars>>

YearlyDownloaded(year, export) ==
    Downloaded("yearlyDownload", year, export, export.csvContent)

MonthlyDownloaded(year, export) ==
    Downloaded("monthlyDownload", year, export, <<Bom>> \o export.content)

\* Dashboard.handleYearlyDownload, on the year picked in the settings
HandleYearlyDownload(year) == YearlyDownloaded(year, YearlyExport(year))

\* Dashboard.handleMonthlyDownload, on the download button of the calendar
HandleMonthlyDownload(month) ==
    MonthlyDownloaded(selectedYear, MonthExport(selectedYear, month))

\* the download button of the calendar passes the displayed month
MonthlyDownload == HandleMonthlyDownload(selectedMonth)

\* availableYears, as the settings menu gets them: the years of the store,
\* the displayed year when the store has none
AvailableYears ==
    IF DOMAIN workedDays = {} THEN {selectedYear} ELSE DOMAIN workedDays

\* handleDownloadConfirm, on a year of the year picker
YearlyDownload == \E year \in AvailableYears : HandleYearlyDownload(year)

\* custom shifts as handleSaveNewShift appends them: one saved with a start
\* time and no end time, one saved without times
TypeA == <<"a">>
TypeB == <<"b">>
ShiftA ==
    [type |-> TypeA, label |-> <<"A">>, hours |-> 75, color |-> PresetColor0,
     overtimeMultiplier |-> 25, startTime |-> "08:00", endTime |-> "",
     labelEn |-> << >>]
ShiftB ==
    [type |-> TypeB, label |-> <<"B">>, hours |-> 80, color |-> PresetColor0,
     overtimeMultiplier |-> 0, startTime |-> "", endTime |-> "",
     labelEn |-> << >>]

\* the catalog an earlier session saved: the night shift deleted, the
\* customs A and B added in this order
ExportCatalog ==
    SelectSeq(DEFAULT_SHIFT_TYPES, LAMBDA sh : sh.type # TypeNight)
      \o <<ShiftA, ShiftB>>

\* the stores an earlier session saved: what handleDayClick left on the
\* first and last day of January 2024 and on one more day; the night
\* entries were made before the night shift was deleted
ExportStores ==
    { SetDay(SetDay(SetDay(<< >>, 2024, 0, 1, first),
                    2024, 0, 31, second),
             third[1], third[2], third[3], third[4]) :
        first \in {<< >>, TypeDay, TypeEvening, TypeNight, TypeB},
        second \in {<< >>, TypeDay, TypeEvening, TypeA},
        third \in {<<2024, 1, 29, << >> >>, <<2024, 1, 29, TypeOvertime>>,
                   <<2024, 1, 29, TypeA>>, <<2023, 11, 31, TypeDay>>} }

\* what localStorage holds at construction
ExportPersisted ==
    { [NothingPersisted EXCEPT !.workedDays = Stored(store),
                               !.shiftTypes = Stored(ExportCatalog),
                               !.baseRate = money[1],
                               !.currencyConfig = money[2]] :
        store \in ExportStores,
        money \in {<<Absent, Absent>>,
                   <<Stored(251),
                     Stored([currency |-> <<"$">>, position |-> "before"])>>} }

InitExport == \E persisted \in ExportPersisted : InitFrom(persisted)

(***************************************************************************)
(* The settings menu: language, currency, reset.                           *)
(***************************************************************************)
\* DEFAULT_SHIFT_TYPES of Settings, which handleClearData stores
SETTINGS_DEFAULT_SHIFT_TYPES == <<
    [type |-> TypeDay, label |-> <<"D","a","y"," ","S","h","i","f","t">>,
     color |-> "#FFFFFF", hours |-> 74, overtimeMultiplier |-> 0,
     startTime |-> "06:00", endTime |-> "14:10"],
    [type |-> TypeEvening,
     label |-> <<"E","v","e","n","i","n","g"," ","S","h","i","f","t">>,
     color |-> "#22C55E", hours |-> 74, overtimeMultiplier |-> 50,
     startTime |-> "14:00", endTime |-> "22:10"],
    [type |-> TypeNight,
     label |-> <<"N","i","g","h","t"," ","S","h","i","f","t">>,
     color |-> "#178838", hours |-> 74, overtimeMultiplier |-> 60,
     startTime |-> "22:00", endTime |-> "06:10"],
    [type |-> TypeOvertime, label |-> <<"O","v","e","r","t","i","m","e">>,
     color |-> "#EF4444", hours |-> 101, overtimeMultiplier |-> 100,
     startTime |-> "11:30", endTime |-> "22:10"] >>

\* Settings.handleLanguageChange: setLanguage, and the language effect when
\* the language is another one
HandleLanguageChange(lang) ==
    /\ language' = lang
    /\ shiftTypes' = IF lang # language THEN LanguageEffect(shiftTypes, lang)
                     ELSE shiftTypes
    /\ last' = [op |-> "languageChange", from |-> language,
                before |-> [workedDays |-> workedDays, baseRate |-> baseRate,
                            shiftTypes |-> shiftTypes]]
    /\ UNCHANGED <<storeVars, baseRate, catalogOps, calendarVars,
                   currencyConfig, calc>>

LanguageChange == \E lang \in {"no", "en"} : HandleLanguageChange(lang)

\* HandleCurrencyDone that also converts the base rate
HandleCurrencyDoneConverting(customCurrency, selectedCurrency, currencyPosition) ==
    LET currency == IF Trim(customCurrency) # << >> THEN Trim(customCurrency)
                    ELSE selectedCurrency
    IN  /\ currencyConfig' = [currency |-> currency,
                              position |-> currencyPosition]
        /\ baseRate' = baseRate \div 10
        /\ last' = [op |-> "currencyDone",
                    before |-> [workedDays |-> workedDays,
                                baseRate |-> baseRate,
                                shiftTypes |-> shiftTypes]]
        /\ UNCHANGED <<storeVars, catalogVars, calendarVars, language, calc>>

\* Settings.handleCurrencyDone, on the fields of the currency dialog
HandleCurrencyDone(customCurrency, selectedCurrency, currencyPosition) ==
    LET currency == IF Trim(customCurrency) # << >> THEN Trim(customCurrency)
                    ELSE selectedCurrency
    IN  /\ currencyConfig' = IF currency # << >>
                             THEN [currency |-> currency,
                                   position |-> currencyPosition]
                             ELSE currencyConfig
        /\ last' = [op |-> "currencyDone",
                    before |-> [workedDays |-> workedDays,
                                baseRate |-> baseRate,
                                shiftTypes |-> shiftTypes]]
        /\ UNCHANGED <<storeVars, baseRate, catalogVars, calendarVars,
                       language, calc>>

\* what the currency dialog may hold when Done is pressed
CustomCurrencies == {<<" ">>, <<" ", "N", "O", "K", " ">>}
ListedCurrencies == {<<"$">>}

CurrencyDone ==
    \E customCurrency \in CustomCurrencies,
       selectedCurrency \in ListedCurrencies,
       currencyPosition \in {"before", "after"} :
        HandleCurrencyDone(customCurrency, selectedCurrency, currencyPosition)

\* Settings.handleClearData: three keys removed, the Settings defaults stored
\* as the catalog, and the page reloaded
HandleClearData ==
    LET storage == [workedDays |-> Absent, currencyConfig |-> Absent,
                    baseRate |-> Absent,
                    shiftTypes |-> Stored(SETTINGS_DEFAULT_SHIFT_TYPES),
                    language |-> Stored(language)]
        mounted == Mounted(storage)
    IN  /\ \E start \in StartDates :
              /\ selectedYear' = start[1]
              /\ selectedMonth' = start[2]
        /\ workedDays' = mounted.workedDays
        /\ baseRate' = mounted.baseRate
        /\ shiftTypes' = mounted.shiftTypes
        /\ language' = mounted.language
        /\ currencyConfig' = mounted.currencyConfig
        /\ selectedShiftType' = TypeDay
        /\ editingShift' = << >>
        /\ isCreating' = FALSE
        /\ isErasing' = FALSE
        /\ last' = [op |-> "clearData"]
        /\ UNCHANGED <<catalogOps, calc>>

\* the currency dialog and the reset, on a store and a catalog the user
\* has filled
NextSettings ==
    \/ FirstDayClick \/ HandleAddNewShift \/ SaveNewShift
    \/ CurrencyDone \/ HandleClearData

SpecSettings == InitFresh /\ [][NextSettings]_vars

\* the language menu, on a catalog the user has extended and recolored
NextLanguage ==
    \/ FirstDayClick \/ HandleAddNewShift \/ SaveNewShift \/ EditStart \/ EditSaveColor
    \/ LanguageChange

SpecLanguage == InitFresh /\ [][NextLanguage]_vars

\* what the persistence effects have written for the present state
PersistedNow ==
    [workedDays |-> Stored(workedDays), baseRate |-> Stored(baseRate),
     currencyConfig |-> Stored(currencyConfig),
     shiftTypes |-> Stored(shiftTypes), language |-> Stored(language)]

\* a reload of the page: Dashboard and Calendar are constructed again on
\* what the effects have written, and the effects of the first render run
Reload ==
    LET mounted == Mounted(PersistedNow)
    IN  /\ ~Construct(PersistedNow).threw
        /\ \E start \in StartDates :
              /\ selectedYear' = start[1]
              /\ selectedMonth' = start[2]
        /\ workedDays' = mounted.workedDays
        /\ baseRate' = mounted.baseRate
        /\ shiftTypes' = mounted.shiftTypes
        /\ language' = mounted.language
        /\ currencyConfig' = mounted.currencyConfig
        /\ selectedShiftType' = TypeDay
        /\ editingShift' = << >>
        /\ isCreating' = FALSE
        /\ isErasing' = FALSE
        /\ last' = [op |-> "reload", language |-> language,
                    shiftTypes |-> shiftTypes]
        /\ UNCHANGED <<catalogOps, calc>>

\* the language menu and the reload, on a catalog the user has extended
NextReload == NextLanguage \/ Reload

SpecReload == InitFresh /\ [][NextReload]_vars

\* the exports, in both languages, of what an earlier session saved
NextExport == LanguageChange \/ MonthlyDownload \/ YearlyDownload

SpecExport == InitExport /\ [][NextExport]_vars

(***************************************************************************)
(* The whole program.                                                      *)
(***************************************************************************)
Next ==
    \/ DayClick \/ MonthChange \/ SelectShiftType \/ EraseButton
    \/ EditStart \/ EditSave \/ HandleEditCancel \/ DeleteShift
    \/ HandleAddNewShift \/ SaveNewShift \/ HandleCancelNewShift
    \/ BaseRateChange \/ Render \/ RenderDays \/ Reload
    \/ EditSaveColor \/ LanguageChange \/ CurrencyDone \/ HandleClearData
    \/ MonthlyDownload \/ YearlyDownload

Spec == Init /\ [][Next]_vars

(***************************************************************************)
(* Properties of the worked-day store.                                     *)
(***************************************************************************)
\* the positions of the entries the store holds for (y, m, d)
EntriesOn(store, y, m, d) ==
    {i \in 1..Len(YearDays(store, y)) :
        YearDays(store, y)[i].day = d /\ YearDays(store, y)[i].month = m}

\* the days and months an entry of the store may name
StoredDays == 1..31
StoredMonths == 0..11

\* C1: after any sequence of day clicks from an empty store there is at most
\* one WorkedDay per (year, month, day), and a click that assigns a shift
\* type to a day leaves exactly one entry for that day, of that shift type
\* (assigning B to a day that holds A replaces A).
C1_OneEntryPerDay ==
    /\ \A y \in DOMAIN workedDays : \A m \in StoredMonths, d \in StoredDays :
           Cardinality(EntriesOn(workedDays, y, m, d)) <= 1
    /\ (last.op = "dayClick" /\ last.called /\ last.shiftType # << >>) =>
           LET on == EntriesOn(workedDays, selectedYear, selectedMonth,
                               last.date)
           IN  /\ Cardinality(on) = 1
               /\ \A i \in on :
                      workedDays[selectedYear][i].shiftType = last.shiftType

\* a click has assigned the evening shift to a day that held the day shift
C1_Witness ==
    /\ last.op = "dayClick" /\ last.called
    /\ last.shiftType = TypeEvening
    /\ last.before = TypeDay

\* C2: a click that passes no shift type (erase) on a day leaves no entry for
\* that day, and getWorkedDaysForMonth of the month has no key for it.
C2_EraseRemoves ==
    (last.op = "dayClick" /\ last.called /\ last.shiftType = << >>) =>
        /\ EntriesOn(workedDays, selectedYear, selectedMonth, last.date) = {}
        /\ last.date \notin
               DOMAIN GetWorkedDaysForMonth(workedDays, selectedYear,
                                            selectedMonth)

\* an erasing click on a day that held a shift
C2_Witness ==
    /\ last.op = "dayClick" /\ last.called
    /\ last.shiftType = << >>
    /\ last.before # << >>

(***************************************************************************)
(* Properties of the catalog.                                              *)
(***************************************************************************)
\* the store without the entries of a shift type
WithoutType(store, t) ==
    [y \in DOMAIN store |-> SelectSeq(store[y], LAMBDA wd : wd.shiftType # t)]

\* the store holds an entry of the shift type
StoreHasType(store, t) ==
    \E y \in DOMAIN store : \E i \in 1..Len(store[y]) :
        store[y][i].shiftType = t

\* the earnings of the shift type t are 0 and its worked days add nothing to
\* the earnings of the displayed month and year
OrphanEarnsNothing(t) ==
    /\ CalculateShiftEarnings(shiftTypes, baseRate, t) = 0
    /\ CalculateDailyEarnings(shiftTypes, t, baseRate) = 0
    /\ CalculateMonthlyEarnings(workedDays, shiftTypes, baseRate,
                                selectedYear, selectedMonth)
         = CalculateMonthlyEarnings(WithoutType(workedDays, t), shiftTypes,
                                    baseRate, selectedYear, selectedMonth)
    /\ CalculateYearlyEarnings(workedDays, shiftTypes, baseRate, selectedYear)
         = CalculateYearlyEarnings(WithoutType(workedDays, t), shiftTypes,
                                   baseRate, selectedYear)

\* the shift type the last handler named earns nothing
DeletedEarnsNothing == OrphanEarnsNothing(last.type)

\* C3: deleting a shift type leaves the worked-day store as it was, the
\* worked days of the deleted type included, and those days then earn 0.
C3_DeleteKeepsDays ==
    last.op = "deleteShift" =>
        /\ workedDays = last.before
        /\ DeletedEarnsNothing

\* a shift type was deleted while the store holds a day of that type
C3_Witness ==
    /\ last.op = "deleteShift"
    /\ StoreHasType(workedDays, last.type)
    /\ ~HasType(shiftTypes, last.type)

\* C4: no two catalog entries share a type key.
C4_UniqueTypes ==
    \A i, j \in 1..Len(shiftTypes) :
        shiftTypes[i].type = shiftTypes[j].type => i = j

\* the inputs of a save that the claim says is rejected
Rejected(l) ==
    \/ ~l.hours.nan /\ l.hours.val <= 0
    \/ ~l.ot.nan /\ l.ot.val < 0
    \/ l.op = "saveNewShift" /\ l.label = << >>

CatalogValid ==
    \A i \in 1..Len(shiftTypes) :
        shiftTypes[i].hours > 0 /\ shiftTypes[i].overtimeMultiplier >= 0

\* C5: a save of the new-shift form or of the edit form with hours <= 0, an
\* overtime multiplier < 0 or (new shift) an empty label leaves the catalog
\* as it was, and every catalog entry has hours > 0 and overtime >= 0.
C5_InvalidShiftRejected ==
    /\ []CatalogValid
    /\ [][(last'.op \in {"saveNewShift", "editSave"} /\ Rejected(last'))
             => shiftTypes' = shiftTypes]_vars

\* the edit form was saved with hours that are not positive
C5_Witness ==
    /\ last.op = "editSave"
    /\ ~last.hours.nan /\ last.hours.val <= 0

(***************************************************************************)
(* Properties of the earnings.                                             *)
(***************************************************************************)
\* shiftPay of the specification, times 1000
SpecShiftPay(rate, shift) ==
    IF shift.overtimeMultiplier <= 0 THEN rate * shift.hours * 100
    ELSE rate * shift.hours * (100 + shift.overtimeMultiplier)

\* the displayed month holds exactly one worked day, of the shift type t
OneDayWorked(monthMap, t) ==
    Cardinality(DOMAIN monthMap) = 1 /\ \A d \in DOMAIN monthMap : monthMap[d] = t

\* C6: the pay of one instance of a valid shift (hours > 0, overtime >= 0) is
\* baseRate * hours * (1 + overtime/100), as calculateShiftEarnings gives it
\* and as the monthly earnings of a month with that one worked day give it;
\* at base rate 300 a 7.3 hour shift pays 2190 without overtime and 3285
\* with 50 percent.
C6_ShiftPayFormula ==
    calc.op = "render" =>
        \A i \in 1..Len(calc.shifts) :
            LET shift == calc.shifts[i]
                r == calc.baseRate
                expected == r * shift.hours * (100 + shift.overtimeMultiplier)
            IN  (shift.hours > 0 /\ shift.overtimeMultiplier >= 0) =>
                    /\ calc.shiftEarnings[i] = expected
                    /\ OneDayWorked(calc.monthWorkedDays, shift.type) =>
                           calc.monthlyEarnings = expected
                    /\ (r = 300 /\ shift.hours = 73
                          /\ shift.overtimeMultiplier = 0) =>
                           calc.shiftEarnings[i] = 2190000
                    /\ (r = 300 /\ shift.hours = 73
                          /\ shift.overtimeMultiplier = 50) =>
                           calc.shiftEarnings[i] = 3285000

\* a render at base rate 300 with a worked day of a 7.3 hour shift at 50
\* percent overtime
C6_Witness ==
    /\ calc.op = "render" /\ calc.baseRate = 300
    /\ Len(calc.shifts) = 1
    /\ calc.shifts[1].hours = 73 /\ calc.shifts[1].overtimeMultiplier = 50
    /\ OneDayWorked(calc.monthWorkedDays, calc.shifts[1].type)
    /\ calc.monthlyEarnings = 3285000

\* C7: for a shift whose overtime multiplier is <= 0 every pay computation
\* returns baseRate * hours: calculateShiftEarnings, calculateShiftPay,
\* calculateDailyEarnings, the monthly earnings and the chart breakdown.
C7_NoOvertimeTermIsOne ==
    calc.op = "render" =>
        \A i \in 1..Len(calc.shifts) :
            LET shift == calc.shifts[i]
                expected == calc.baseRate * shift.hours * 100
            IN  shift.overtimeMultiplier <= 0 =>
                    /\ calc.shiftEarnings[i] = expected
                    /\ calc.shiftPay[i] = expected
                    /\ calc.dailyEarnings[i] = expected
                    /\ OneDayWorked(calc.monthWorkedDays, shift.type) =>
                           /\ calc.monthlyEarnings = expected
                           /\ calc.shiftData[shift.type].earnings = expected

\* dailyEarnings of the specification: 0 for a day without an entry or with
\* a shift type the catalog does not hold
SpecDailyEarnings(store, catalog, rate, y, m, d) ==
    LET on == EntriesOn(store, y, m, d)
    IN  IF on = {} THEN 0
        ELSE LET t == YearDays(store, y)[CHOOSE i \in on : TRUE].shiftType
             IN  IF ~HasType(catalog, t) THEN 0
                 ELSE SpecShiftPay(rate, FindShift(catalog, t))

\* monthlyEarnings of the specification: the sum over the days of the month
SpecMonthlyEarnings(store, catalog, rate, y, m) ==
    LET daily == [d \in 1..DaysInMonth(y, m) |->
                     SpecDailyEarnings(store, catalog, rate, y, m, d)]
    IN  SumOver(daily, 1..DaysInMonth(y, m))

\* the months the monthly earnings are asked for: the displayable ones and
\* the February of a year that is no leap year
CheckedMonths == NavWindow \cup {<<2023, 1>>}

\* Dashboard.calculateMonthlyEarnings is the sum over the days of the month
DashboardMonthlyIsSumOfDays ==
    \A ym \in CheckedMonths :
        CalculateMonthlyEarnings(workedDays, shiftTypes, baseRate,
                                 ym[1], ym[2])
          = SpecMonthlyEarnings(workedDays, shiftTypes, baseRate, ym[1], ym[2])

\* Calendar.calculateMonthlyEarnings is the sum over the days of the month
CalendarMonthlyIsSumOfDays ==
    \A ym \in CheckedMonths :
        CalendarMonthlyEarnings(CurrentMonthWorkedDays, shiftTypes, baseRate,
                                ym[1], ym[2])
          = SpecMonthlyEarnings(workedDays, shiftTypes, baseRate, ym[1], ym[2])

\* C8: the monthly earnings of (year, month) are the sum of the daily
\* earnings over the days 1..daysInMonth(year, month) (29 for February 2024,
\* 28 for February 2023), a day without an entry or with an orphaned shift
\* type adding 0 and a month without worked days giving 0.
C8_MonthlyIsSumOfDays ==
    /\ DaysInMonth(2024, 1) = 29 /\ DaysInMonth(2023, 1) = 28
    /\ DashboardMonthlyIsSumOfDays
    /\ CalendarMonthlyIsSumOfDays

\* the entries the store holds under the year y, alone
StoreOfYear(store, y) == [x \in (DOMAIN store) \cap {y} |-> store[x]]

CheckedYears == {ym[1] : ym \in NavWindow}

\* the sum of the monthly earnings of the specification over the year
SpecYearlyEarnings(store, catalog, rate, y) ==
    LET monthly == [m \in 0..11 |->
                       SpecMonthlyEarnings(store, catalog, rate, y, m)]
    IN  SumOver(monthly, 0..11)

\* Dashboard.calculateYearlyEarnings is the sum of the twelve months of the
\* year and takes nothing from the other years
DashboardYearlyIsSumOfMonths ==
    \A y \in CheckedYears :
        /\ CalculateYearlyEarnings(workedDays, shiftTypes, baseRate, y)
             = SpecYearlyEarnings(workedDays, shiftTypes, baseRate, y)
        /\ CalculateYearlyEarnings(workedDays, shiftTypes, baseRate, y)
             = CalculateYearlyEarnings(StoreOfYear(workedDays, y),
                                       shiftTypes, baseRate, y)

\* Calendar.calculateYearlyEarnings is the sum of the twelve months of the
\* year
CalendarYearlyIsSumOfMonths ==
    \A y \in CheckedYears :
        CalendarYearlyEarnings(CurrentMonthWorkedDays, shiftTypes, baseRate, y)
          = SpecYearlyEarnings(workedDays, shiftTypes, baseRate, y)

\* C9: the yearly earnings of y are the sum of the monthly earnings of y over
\* the months 0..11, and entries stored under other years add nothing.
C9_YearlyIsSumOfMonths ==
    DashboardYearlyIsSumOfMonths /\ CalendarYearlyIsSumOfMonths

\* the days of (y, m) the store gives the shift type t
DaysOfType(store, y, m, t) ==
    {d \in 1..DaysInMonth(y, m) :
        \E i \in EntriesOn(store, y, m, d) :
            YearDays(store, y)[i].shiftType = t}

\* C10: the breakdown of a month has an entry exactly for the catalog's shift
\* types that occur in the month, with the sum of their pay and the number
\* of their days; other shift types, orphaned ones included, have no entry.
C10_BreakdownOmitsAbsentTypes ==
    \A m \in 0..11 :
        LET shiftData == MonthlyShiftData(workedDays, shiftTypes, baseRate,
                                          selectedYear, m)
            occurring ==
                {t \in TypesOf(shiftTypes) :
                    DaysOfType(workedDays, selectedYear, m, t) # {}}
        IN  /\ DOMAIN shiftData = occurring
            /\ \A t \in occurring :
                   LET n == Cardinality(DaysOfType(workedDays, selectedYear,
                                                   m, t))
                   IN  /\ shiftData[t].days = n
                       /\ shiftData[t].earnings
                            = n * SpecShiftPay(baseRate,
                                               FindShift(shiftTypes, t))

(***************************************************************************)
(* Properties of loading, of the settings and of the export.               *)
(***************************************************************************)
\* the keys of localStorage that hold JSON text
JsonKeys == {"workedDays", "shiftTypes", "baseRate", "currencyConfig"}

\* the built-in default of a key
BuiltInDefault(key, persisted) ==
    Construct([NothingPersisted EXCEPT !.language = persisted.language])[key]

\* the value the key gets when the other keys hold nothing
LoadedAlone(key, persisted) ==
    Construct([NothingPersisted EXCEPT ![key] = persisted[key],
                                       !.language = persisted.language])[key]

\* C11: on load no error reaches the caller; a key whose stored value is
\* missing or unparseable takes its built-in default (the empty store for
\* workedDays), and every key gets the value it gets when the other keys
\* hold nothing.
C11_LoadFallsBackPerKey ==
    calc.op = "load" =>
        /\ ~calc.result.threw
        /\ \A key \in JsonKeys :
               /\ calc.persisted[key].kind \in {"absent", "invalid"} =>
                      calc.result[key] = BuiltInDefault(key, calc.persisted)
               /\ calc.result[key] = LoadedAlone(key, calc.persisted)

\* the catalog of a first start with nothing persisted
FirstStartCatalog == Mounted(NothingPersisted).shiftTypes

\* C12: after the reset (handleClearData and the reload) the catalog holds
\* exactly the four built-in shift types, each with the hours, the overtime
\* multiplier and the time window of the first-start seed, no custom entry is
\* left, and the worked-day store is empty.
C12_ResetRestoresDefaults ==
    last.op = "clearData" =>
        /\ Len(shiftTypes) = Len(FirstStartCatalog)
        /\ \A i \in 1..Len(shiftTypes) :
               /\ shiftTypes[i].type = FirstStartCatalog[i].type
               /\ shiftTypes[i].hours = FirstStartCatalog[i].hours
               /\ shiftTypes[i].overtimeMultiplier
                    = FirstStartCatalog[i].overtimeMultiplier
               /\ shiftTypes[i].startTime = FirstStartCatalog[i].startTime
               /\ shiftTypes[i].endTime = FirstStartCatalog[i].endTime
        /\ workedDays = << >>

\* the type is one of the four built-in ones
IsBuiltIn(t) == t \in {TypeDay, TypeEvening, TypeNight, TypeOvertime}

\* the label of a built-in type in a language
BuiltInLabel(t, lang) ==
    LET def == FindShift(DEFAULT_SHIFT_TYPES, t)
    IN  IF lang = "no" THEN def.label ELSE def.labelEn

\* C13: when the language changes, every entry of a built-in type has the
\* label of the new language and its default color, every custom entry has
\* the label and the color it had, hours, overtime multiplier and type of
\* every entry are as before, and so are the worked-day store and the base
\* rate.
C13_LanguageChangeRelabels ==
    (last.op = "languageChange" /\ last.from # language) =>
        LET before == last.before.shiftTypes
        IN  /\ Len(shiftTypes) = Len(before)
            /\ \A i \in 1..Len(shiftTypes) :
                   /\ shiftTypes[i].type = before[i].type
                   /\ shiftTypes[i].hours = before[i].hours
                   /\ shiftTypes[i].overtimeMultiplier
                        = before[i].overtimeMultiplier
                   /\ IF IsBuiltIn(before[i].type)
                      THEN /\ shiftTypes[i].label
                                = BuiltInLabel(before[i].type, language)
                           /\ shiftTypes[i].color
                                = FindShift(DEFAULT_SHIFT_TYPES,
                                            before[i].type).color
                      ELSE /\ shiftTypes[i].label = before[i].label
                           /\ shiftTypes[i].color = before[i].color
            /\ workedDays = last.before.workedDays
            /\ baseRate = last.before.baseRate

\* the language went from Norwegian to English on a catalog with a custom
\* entry and a recolored built-in entry, and a worked day in the store
C13_Witness ==
    /\ last.op = "languageChange" /\ last.from = "no" /\ language = "en"
    /\ \E i \in 1..Len(shiftTypes) : ~IsBuiltIn(shiftTypes[i].type)
    /\ \E i \in 1..Len(last.before.shiftTypes) :
           /\ IsBuiltIn(last.before.shiftTypes[i].type)
           /\ last.before.shiftTypes[i].color = PresetColor8
    /\ workedDays # << >>

\* C14: a change of the currency configuration leaves the worked-day store,
\* the catalog and the base rate as they were, and with them the monthly
\* and yearly earnings of every month and year.
C14_CurrencyChangeKeepsAmounts ==
    last.op = "currencyDone" =>
        /\ workedDays = last.before.workedDays
        /\ shiftTypes = last.before.shiftTypes
        /\ baseRate = last.before.baseRate
        /\ \A ym \in CheckedMonths :
               CalculateMonthlyEarnings(workedDays, shiftTypes, baseRate,
                                        ym[1], ym[2])
                 = CalculateMonthlyEarnings(last.before.workedDays,
                                            last.before.shiftTypes,
                                            last.before.baseRate,
                                            ym[1], ym[2])
        /\ \A y \in CheckedYears :
               CalculateYearlyEarnings(workedDays, shiftTypes, baseRate, y)
                 = CalculateYearlyEarnings(last.before.workedDays,
                                           last.before.shiftTypes,
                                           last.before.baseRate, y)

\* the currency went to NOK before the amount while the displayed month has
\* earnings
C14_Witness ==
    /\ last.op = "currencyDone"
    /\ currencyConfig = [currency |-> <<"N", "O", "K">>, position |-> "before"]
    /\ CalculateMonthlyEarnings(workedDays, shiftTypes, baseRate,
                                selectedYear, selectedMonth) > 0

(***************************************************************************)
(* The export.                                                             *)
(***************************************************************************)
ExportMade == calc.op \in {"monthlyDownload", "yearlyDownload"}

\* the months generateDownloadData was asked for by the last download
DownloadedMonths ==
    IF calc.op = "monthlyDownload" THEN {calc.export.month} ELSE 0..11

\* what the last download built for the month m: of a yearly download, the
\* months it kept
BuiltMonths ==
    IF calc.op = "monthlyDownload" THEN <<calc.export>> ELSE calc.export.months

\* the rows the last download got for the month m; a month the yearly
\* export skips has no worked days
DownloadedRows(m) ==
    LET at == {i \in 1..Len(BuiltMonths) : BuiltMonths[i].month = m}
    IN  IF at = {} THEN << >> ELSE BuiltMonths[CHOOSE i \in at : TRUE].rows

\* the shift type the store holds for a day, '' without an entry
StoredType(store, y, m, d) ==
    LET on == EntriesOn(store, y, m, d)
    IN  IF on = {} THEN << >>
        ELSE YearDays(store, y)[CHOOSE i \in on : TRUE].shiftType

\* the days of a month that hold a shift type of the catalog
CatalogDays(store, catalog, y, m) ==
    {d \in 1..DaysInMonth(y, m) : HasType(catalog, StoredType(store, y, m, d))}

\* the day a row is dated, read from its date MM/DD/YYYY
DayOfRow(row) == LeadingDigits(SplitOn(row.date, "/", << >>)[2], 0, 0).value

\* the amount an amount text of the export reads as
AmountOfText(text) ==
    ParseFloatText(ReplaceFirst(ReplaceAll(text, {" "}, << >>),
                                ",", <<".">>)).val

\* an amount to the nearest hundredth, as a text of two decimals shows it
ToHundredths(amount) == ((amount + 5) \div 10) * 10

\* the amount the earnings text of a language shows for an amount: the
\* English text has two decimals, the Norwegian one up to three
ShownAmount(amount, lang) ==
    IF lang = "en" THEN ToHundredths(amount) ELSE amount

\* C15: for the month of a monthly download, and each month 0..11 of a
\* yearly one, generateDownloadData gives exactly one row for each day of
\* the month that holds a shift type of the catalog, in ascending day order,
\* with the hours of that shift and its shift pay as earnings; a day without
\* an entry or with an orphaned shift type has no row.
C15_OneRowPerWorkedDay ==
    ExportMade =>
        \A m \in DownloadedMonths :
            LET rows == DownloadedRows(m)
                from == calc.from
                days == CatalogDays(from.workedDays, from.shiftTypes,
                                    calc.year, m)
            IN  /\ Len(rows) = Cardinality(days)
                /\ {DayOfRow(rows[i]) : i \in 1..Len(rows)} = days
                /\ \A i \in 1..Len(rows) : \A j \in (i + 1)..Len(rows) :
                       DayOfRow(rows[i]) < DayOfRow(rows[j])
                /\ \A i \in 1..Len(rows) :
                       LET shift ==
                               FindShift(from.shiftTypes,
                                         StoredType(from.workedDays, calc.year,
                                                    m, DayOfRow(rows[i])))
                       IN  /\ ParseFloatText(rows[i].hours).val
                                = shift.hours * 100
                           /\ AmountOfText(rows[i].earnings)
                                = ShownAmount(SpecShiftPay(from.baseRate,
                                                           shift),
                                              from.language)

\* a yearly download of 2024 whose January has an orphaned first day and a
\* row for the last day, and whose February has a row
C15_Witness ==
    /\ calc.op = "yearlyDownload" /\ calc.year = 2024
    /\ StoredType(calc.from.workedDays, 2024, 0, 1) = TypeNight
    /\ ~HasType(calc.from.shiftTypes, TypeNight)
    /\ Len(DownloadedRows(0)) = 1 /\ DayOfRow(DownloadedRows(0)[1]) = 31
    /\ Len(DownloadedRows(1)) = 1

\* the lines of a kind among the summary rows of a month
LinesOf(summaryRows, kind) ==
    SelectSeq(summaryRows, LAMBDA line : line # << >> /\ line[1].kind = kind)

\* the amount the text of a line of the file reads as, its currency taken
\* off
LineAmount(text) == AmountOfText(Trim(RemoveCurrencyWords(text)))

\* the amounts of a sequence of lines or rows added up
SumOfAmounts(amounts) == SumOver(amounts, 1..Len(amounts))

\* C16: in a monthly or yearly export the totals line of a month is the sum
\* of the earnings of the summary lines of the month and the sum of the
\* earnings of its rows, which is monthlyEarnings of the month; the grand
\* total of a yearly export is the sum of the monthly totals, which is
\* yearlyEarnings of the year; every line shows its amount.
C16_TotalsAreSums ==
    ExportMade =>
        LET from == calc.from
            monthOk(built) ==
                LET summary == LinesOf(built.summaryRows, "summary")
                    total == LinesOf(built.summaryRows, "total")
                    rows == built.rows
                IN  /\ Len(total) = 1
                    /\ total[1][1].amount
                         = SumOfAmounts([i \in 1..Len(summary) |->
                                            summary[i][1].amount])
                    /\ total[1][1].amount
                         = SumOfAmounts(
                               [i \in 1..Len(rows) |->
                                   SpecDailyEarnings(from.workedDays,
                                                     from.shiftTypes,
                                                     from.baseRate, calc.year,
                                                     built.month,
                                                     DayOfRow(rows[i]))])
                    /\ total[1][1].amount
                         = CalculateMonthlyEarnings(from.workedDays,
                                                    from.shiftTypes,
                                                    from.baseRate, calc.year,
                                                    built.month)
                    /\ total[1][1].amount
                         = SpecMonthlyEarnings(from.workedDays, from.shiftTypes,
                                               from.baseRate, calc.year,
                                               built.month)
                    /\ LineAmount(total[1][1].text)
                         = ShownAmount(total[1][1].amount, from.language)
                    /\ \A i \in 1..Len(summary) :
                           LineAmount(summary[i][1].earnings)
                             = ShownAmount(summary[i][1].amount, from.language)
                    /\ \A i \in 1..Len(rows) :
                           LineAmount(built.csvRows[i + 1].earnings)
                             = ShownAmount(
                                   SpecDailyEarnings(from.workedDays,
                                                     from.shiftTypes,
                                                     from.baseRate, calc.year,
                                                     built.month,
                                                     DayOfRow(rows[i])),
                                   from.language)
        IN  /\ \A i \in 1..Len(BuiltMonths) : monthOk(BuiltMonths[i])
            /\ calc.op = "yearlyDownload" =>
                   LET last3 == calc.csvContent[Len(calc.csvContent)]
                       totals == [i \in 1..Len(BuiltMonths) |->
                                     LinesOf(BuiltMonths[i].summaryRows,
                                             "total")[1][1].amount]
                   IN  /\ last3.kind = "yearTotal"
                       /\ last3.amount = SumOfAmounts(totals)
                       /\ last3.amount
                            = CalculateYearlyEarnings(from.workedDays,
                                                      from.shiftTypes,
                                                      from.baseRate, calc.year)
                       /\ last3.amount
                            = SpecYearlyEarnings(from.workedDays,
                                                 from.shiftTypes,
                                                 from.baseRate, calc.year)
                       /\ LineAmount(last3.text)
                            = ShownAmount(last3.amount, from.language)

\* a yearly download of two months, the first with two rows of two shift
\* types, at a base rate that gives fractional amounts
C16_Witness ==
    /\ calc.op = "yearlyDownload"
    /\ Len(calc.export.months) = 2
    /\ Len(calc.export.months[1].rows) = 2
    /\ Len(LinesOf(calc.export.months[1].summaryRows, "summary")) = 2
    /\ calc.export.months[2].totalEarnings > 0
    /\ calc.from.baseRate = 251

\* the shift types of the summary lines of a month, in the order of the
\* lines
SummaryTypes(built) ==
    LET summary == LinesOf(built.summaryRows, "summary")
    IN  [i \in 1..Len(summary) |-> summary[i][1].type]

\* the shift types of the catalog with a worked day in a month
TypesWorked(store, catalog, y, m) ==
    {StoredType(store, y, m, d) : d \in CatalogDays(store, catalog, y, m)}

\* the order of the summary lines: day, overtime, evening, night, then the
\* other types as the catalog has them
SummaryOrder(catalog) ==
    LET keys == [i \in 1..Len(catalog) |-> catalog[i].type]
    IN  shiftTypeOrder
          \o SelectSeq(keys, LAMBDA t : \A i \in 1..Len(shiftTypeOrder) :
                                           shiftTypeOrder[i] # t)

\* the percentage annotation of a label: " (n%)" at its end
PercentAnnotation(overtime) ==
    <<" ", "(">> \o Digits(overtime) \o <<"%", ")">>

EndsWith(text, suffix) ==
    Len(suffix) <= Len(text)
      /\ SubSeq(text, Len(text) - Len(suffix) + 1, Len(text)) = suffix

HasPercentAnnotation(label) ==
    Len(label) >= 2 /\ label[Len(label)] = ")" /\ label[Len(label) - 1] = "%"

\* C17: the summary block of a month of an export has one line for each
\* shift type with a worked day in the month, in the order day, overtime,
\* evening, night, then the custom types in the order in which they were
\* added to the catalog; a line carries the overtime percentage exactly
\* when the overtimeMultiplier of its shift is above 0.
C17_SummaryLinesInOrder ==
    ExportMade =>
        \A b \in 1..Len(BuiltMonths) :
            LET built == BuiltMonths[b]
                from == calc.from
                worked == TypesWorked(from.workedDays, from.shiftTypes,
                                      calc.year, built.month)
                summary == LinesOf(built.summaryRows, "summary")
            IN  /\ SummaryTypes(built)
                     = SelectSeq(SummaryOrder(from.shiftTypes),
                                 LAMBDA t : t \in worked)
                /\ \A i \in 1..Len(summary) :
                       LET shift == FindShift(from.shiftTypes,
                                              summary[i][1].type)
                       IN  IF shift.overtimeMultiplier > 0
                           THEN EndsWith(summary[i][1].label,
                                         PercentAnnotation(
                                             shift.overtimeMultiplier))
                           ELSE ~HasPercentAnnotation(summary[i][1].label)

\* the months of a year with a worked day in the store, in month order
MonthsWorked(store, y) ==
    Ascending({m \in 0..11 : \E d \in 1..31 :
                                StoredType(store, y, m, d) # << >>}, 0, 11)

\* n blank lines after a line: the break that ends the line and one break
\* for each blank line
BlankLines(n) == [i \in 1..(n + 1) |-> Newline]

\* C18: the file of a yearly export is made of the blocks of the months
\* that have worked days, in month order, two blank lines between a block
\* and the next, and three blank lines and the line of the grand total
\* after the last block.
C18_YearlyFileLayout ==
    calc.op = "yearlyDownload" =>
        LET months == calc.export.months
            blocks == [i \in 1..Len(months) |-> months[i].content]
            grandTotal == calc.csvContent[Len(calc.csvContent)]
        IN  /\ [i \in 1..Len(months) |-> months[i].month]
                 = MonthsWorked(calc.from.workedDays, calc.year)
            /\ \A i \in 1..Len(blocks) :
                   /\ blocks[i] # << >>
                   /\ Head(blocks[i]) # Newline
                   /\ blocks[i][Len(blocks[i])] # Newline
            /\ grandTotal.kind = "yearTotal"
            /\ months # << >> =>
                   calc.csvContent
                     = <<Bom>> \o JoinText(blocks, BlankLines(2))
                         \o BlankLines(3) \o <<grandTotal>>

\* the number of an amount as the formatting rule has it: a space between
\* the thousands, no decimals for a whole amount, else two behind sep
SpecNumberText(amount, sep) ==
    LET hundredths == (amount + 5) \div 10
    IN  GroupThousands(Digits(hundredths \div 100), " ")
          \o (IF amount % 1000 = 0 THEN << >>
              ELSE <<sep>> \o PadStart(Digits(hundredths % 100), 2))

\* a text is the amount with the currency before it, or after it behind
\* one space; the decimal sign is a point or a comma
IsFormatted(text, amount, config) ==
    \E sep \in {".", ","} :
        text = IF config.position = "before"
               THEN config.currency \o SpecNumberText(amount, sep)
               ELSE SpecNumberText(amount, sep) \o <<" ">> \o config.currency

\* the amounts an export shows, each with the text it shows for it
ShownInExport ==
    LET ofMonth(built) ==
            LET summary == LinesOf(built.summaryRows, "summary")
                total == LinesOf(built.summaryRows, "total")
            IN  {<<built.csvRows[i + 1].earnings, built.rows[i].dailyEarnings>> :
                    i \in 1..Len(built.rows)}
                \cup {<<summary[i][1].earnings, summary[i][1].amount>> :
                        i \in 1..Len(summary)}
                \cup {<<total[i][1].text, total[i][1].amount>> :
                        i \in 1..Len(total)}
        grandTotal == calc.csvContent[Len(calc.csvContent)]
    IN  UNION {ofMonth(BuiltMonths[b]) : b \in 1..Len(BuiltMonths)}
        \cup (IF calc.op = "yearlyDownload"
              THEN {<<grandTotal.text, grandTotal.amount>>} ELSE {})

\* C19: every amount of an export, in both languages, and formatAmount of
\* it, has a space between the thousands, two decimals when the amount is
\* fractional and none when it is whole, and the currency before the number
\* or after it behind a single space, as the currency configuration says;
\* 12345.5 with kr after is 12 345.50 kr.
C19_AmountsFormatted ==
    /\ FormatAmount(12345500, [currency |-> <<"k", "r">>, position |-> "after"])
         = <<"1", "2", " ", "3", "4", "5", ".", "5", "0", " ", "k", "r">>
    /\ ExportMade =>
           \A shown \in ShownInExport :
               /\ IsFormatted(shown[1], shown[2], calc.from.currencyConfig)
               /\ IsFormatted(FormatAmount(shown[2], calc.from.currencyConfig),
                              shown[2], calc.from.currencyConfig)

\* the placeholder pairs of the work-time field, one for each language
WorkTimePlaceholders ==
    { <<"ikke definert", " - ", "ikke definert">>,
      <<"not defined", " - ", "not defined">> }

\* the lines of the rows of the last export, each with its shift
RowsWithShift ==
    UNION { {[line |-> BuiltMonths[b].csvRows[i + 1],
              shift |-> FindShift(calc.from.shiftTypes,
                                  StoredType(calc.from.workedDays, calc.year,
                                             BuiltMonths[b].month,
                                             DayOfRow(BuiltMonths[b].rows[i])))] :
               i \in 1..Len(BuiltMonths[b].rows)} :
            b \in 1..Len(BuiltMonths) }

\* C20, as the specification states it: the work-time field of a row is
\* the placeholder pair only when both the start time and the end time of
\* its shift are absent.
C20_PlaceholderOnlyWhenBothAbsent ==
    ExportMade =>
        \A r \in RowsWithShift :
            r.line.workTime \in WorkTimePlaceholders =>
                (r.shift.startTime = "" /\ r.shift.endTime = "")

\* C20: the work-time field of a row is the placeholder pair exactly when
\* the start time or the end time of its shift is absent, and the two times
\* joined by a dash when both are set.
C20_PlaceholderWhenATimeIsAbsent ==
    ExportMade =>
        \A r \in RowsWithShift :
            IF r.shift.startTime = "" \/ r.shift.endTime = ""
            THEN r.line.workTime \in WorkTimePlaceholders
            ELSE r.line.workTime = <<r.shift.startTime, "-", r.shift.endTime>>

\* an export with a row of a shift that has a start time and no end time,
\* and a row of a shift with both times
C20_Witness ==
    /\ ExportMade
    /\ \E r \in RowsWithShift :
           /\ r.shift.startTime # "" /\ r.shift.endTime = ""
           /\ r.line.workTime \in WorkTimePlaceholders
    /\ \E r \in RowsWithShift :
           /\ r.shift.startTime # "" /\ r.shift.endTime # ""
           /\ r.line.workTime \notin WorkTimePlaceholders

(***************************************************************************)
(* The achievement tiers.                                                  *)
(***************************************************************************)
TierMultiples == {10, 15, 20, 25}

TierOf(k) ==
    IF k = 25 THEN Tier25 ELSE IF k = 20 THEN Tier20
    ELSE IF k = 15 THEN Tier15 ELSE Tier10

\* the multiples of the base rate whose threshold the earnings reach
Reached(e, b) == {k \in TierMultiples : e >= k * b * 1000}

\* the tiers of the highest threshold the earnings reach
HighestReached(e, b) ==
    {TierOf(k) : k \in {j \in Reached(e, b) :
                           \A i \in Reached(e, b) : i * b <= j * b}}

\* C21: the achievement tier of a worked day is the one of the highest
\* threshold among 25, 20, 15 and 10 times the base rate that its earnings
\* reach, a threshold being reached at equality, and there is no tier below
\* 10 times the base rate.
C21_HighestTierReached ==
    calc.op = "renderDays" =>
        \A day \in DOMAIN calc.cells :
            LET e == calc.cells[day].dailyEarnings
                b == calc.baseRate
                emojis == calc.cells[day].emojis
            IN  /\ e < 10 * b * 1000 => emojis = << >>
                /\ Reached(e, b) = {} => emojis = << >>
                /\ Reached(e, b) # {} => emojis \in HighestReached(e, b)

(***************************************************************************)
(* The store, again.                                                       *)
(***************************************************************************)
\* the last handler was a day click that called setDay with a shift type
ClickHasSet ==
    last.op = "dayClick" /\ last.called /\ last.shiftType # << >>

\* C22: setDay(y, m, d, t) with a shift type t applied to the store a
\* setDay(y, m, d, t) has left gives that store again: two calls in a row
\* give what one call gives, also when the day held t before the first.
C22_SetDayIdempotent ==
    ClickHasSet =>
        /\ SetDay(workedDays, selectedYear, selectedMonth, last.date,
                  last.shiftType) = workedDays
        /\ last.before = last.shiftType =>
               workedDays = SetDay(last.prev, selectedYear, selectedMonth,
                                   last.date, last.shiftType)
        /\ SetDay(SetDay(last.prev, selectedYear, selectedMonth, last.date,
                         last.shiftType),
                  selectedYear, selectedMonth, last.date, last.shiftType)
             = SetDay(last.prev, selectedYear, selectedMonth, last.date,
                      last.shiftType)

\* a click has assigned the day shift to a day that held the day shift
\* after another day of the year was set
C22_Witness ==
    /\ ClickHasSet
    /\ last.before = last.shiftType
    /\ Len(YearDays(workedDays, selectedYear)) = 2

\* the store holds the entry (y, m, d, t)
Holds(store, y, m, d, t) ==
    \E i \in 1..Len(YearDays(store, y)) :
        YearDays(store, y)[i] = [day |-> d, month |-> m, shiftType |-> t]

\* the shift types the stored entries have
StoredTypes(store) ==
    UNION {{store[y][i].shiftType : i \in 1..Len(store[y])} : y \in DOMAIN store}

\* C23: getWorkedDaysForMonth(year, month) maps the day d to the shift type
\* t exactly when the store holds the entry (year, month, d, t); entries of
\* other months and years are not in it, and a day without an entry has no
\* key, rather than an empty shift type.
C23_MonthIsProjection ==
    \A ym \in CheckedMonths :
        LET monthMap == GetWorkedDaysForMonth(workedDays, ym[1], ym[2])
        IN  /\ \A d \in StoredDays, t \in StoredTypes(workedDays) \cup {<< >>} :
                   (d \in DOMAIN monthMap /\ monthMap[d] = t)
                     <=> Holds(workedDays, ym[1], ym[2], d, t)
            /\ DOMAIN monthMap \subseteq StoredDays
            /\ \A d \in DOMAIN monthMap :
                   /\ monthMap[d] # << >>
                   /\ monthMap[d] \in StoredTypes(workedDays)

\* after a day click the store holds an entry of December 2023 and one of
\* January 2024, on the same day of the month
C23_Witness ==
    /\ last.op = "dayClick"
    /\ \E d \in StoredDays, t \in StoredTypes(workedDays) :
           /\ Holds(workedDays, 2023, 11, d, t)
           /\ \E u \in StoredTypes(workedDays) :
                  u # t /\ Holds(workedDays, 2024, 0, d, u)

\* C24: the shift type a day click assigns is in the catalog at that
\* moment: in every state, after a deletion and after a reload over a
\* persisted catalog too, the selected shift type that a click outside the
\* erase mode has used is the type of a catalog entry.
C24_SelectedTypeInCatalog ==
    ClickHasSet =>
        /\ last.shiftType = selectedShiftType
        /\ HasType(shiftTypes, last.shiftType)

\* ------------------------------------------------------------------
\* The catalog, saved and loaded

\* the type keys of a catalog with the hours and the overtime of each
KeysOf(catalog) ==
    {[type |-> catalog[i].type, hours |-> catalog[i].hours,
      overtimeMultiplier |-> catalog[i].overtimeMultiplier] :
        i \in 1..Len(catalog)}

\* C25: the catalog the initializer builds from the persisted value of a
\* catalog reached by adding, editing and deleting has the same type keys,
\* each with the same hours and overtime: no custom type is dropped and no
\* deleted built-in type comes back
C25_CatalogRoundTrip ==
    KeysOf(Mounted(PersistedNow).shiftTypes) = KeysOf(shiftTypes)

\* ------------------------------------------------------------------
\* What a click leaves alone

\* the entries of a year other than the one of (m, d), in their order
OtherEntries(store, y, m, d) ==
    SelectSeq(YearDays(store, y), LAMBDA wd : ~(wd.day = d /\ wd.month = m))

\* the two stores differ at most in the entry of (y, m, d)
SameButAt(before, after, y, m, d) ==
    /\ \A x \in (DOMAIN before) \cup (DOMAIN after) :
           x # y => YearDays(after, x) = YearDays(before, x)
    /\ OtherEntries(after, y, m, d) = OtherEntries(before, y, m, d)

\* C26: a click that reaches setDay for the day d of the displayed year and
\* month changes no entry of the store other than the one of that year,
\* month and day; a click on a cell that is not of the displayed month
\* changes no state at all
C26_ClickFrame ==
    [][last'.op = "dayClick" =>
          /\ SameButAt(workedDays, workedDays',
                       selectedYear, selectedMonth, last'.date)
          /\ UNCHANGED <<selectedYear, selectedMonth, baseRate, shiftTypes,
                         selectedShiftType, editingShift, isCreating,
                         isErasing, language, currencyConfig>>
          /\ ~last'.isCurrentMonth => UNCHANGED workedDays]_vars

\* a click has replaced the entry of a day while the store held an entry of
\* another day, month or year
C26_Witness ==
    /\ ClickHasSet
    /\ last.before # << >>
    /\ last.before # last.shiftType
    /\ \E x \in DOMAIN last.prev :
           \/ x # selectedYear /\ Len(last.prev[x]) > 0
           \/ x = selectedYear /\
              Len(OtherEntries(last.prev, x, selectedMonth, last.date)) > 0

\* a click on a cell of another month, with the store filled and a type
\* selected
C26_OtherMonthClicked ==
    /\ last.op = "dayClick" /\ ~last.isCurrentMonth
    /\ StoreSize(workedDays) > 0
    /\ selectedShiftType # << >>

\* ------------------------------------------------------------------
\* The erase mode

\* the store holds an entry for the day d of the month m of the year y
HasEntry(store, y, m, d) ==
    \E i \in 1..Len(YearDays(store, y)) :
        YearDays(store, y)[i].day = d /\ YearDays(store, y)[i].month = m

\* C27: while the erase mode is on, a click on a day of the displayed month
\* leaves the store without an entry for that day and with its other entries
\* as they were, so it never inserts or replaces; deleting a shift type
\* turns the erase mode on; selecting a shift type turns it off; with the
\* erase mode off and no type selected a click changes nothing
C27_EraseMode ==
    [][/\ (last'.op = "dayClick" /\ isErasing /\ last'.isCurrentMonth) =>
              /\ ~HasEntry(workedDays', selectedYear, selectedMonth, last'.date)
              /\ SameButAt(workedDays, workedDays',
                           selectedYear, selectedMonth, last'.date)
       /\ last'.op = "deleteShift" => isErasing'
       /\ last'.op = "selectShift" => ~isErasing'
       /\ (last'.op = "dayClick" /\ ~isErasing /\ selectedShiftType = << >>) =>
              UNCHANGED <<selectedYear, selectedMonth, workedDays, baseRate,
                          shiftTypes, selectedShiftType, editingShift,
                          isCreating, isErasing, language,
                          currencyConfig>>]_vars

\* a click has removed an entry in the erase mode that the deletion of a
\* shift type turned on: the erase button would have cleared the selection
C27_Witness ==
    /\ last.op = "dayClick" /\ last.called /\ last.shiftType = << >>
    /\ last.before # << >>
    /\ isErasing /\ selectedShiftType # << >>
    /\ ~HasEntry(workedDays, selectedYear, selectedMonth, last.date)

\* a click on a day of the displayed month with the erase mode off and no
\* type selected, the store holding an entry
C27_IdleClick ==
    /\ last.op = "dayClick" /\ last.isCurrentMonth /\ ~last.called
    /\ ~isErasing /\ selectedShiftType = << >>
    /\ StoreSize(workedDays) > 0

\* ------------------------------------------------------------------
\* The dates of the store

\* every entry of the store is a day of the calendar
ValidDates(store) ==
    \A y \in DOMAIN store : \A i \in 1..Len(store[y]) :
        /\ store[y][i].month \in 0..11
        /\ store[y][i].day \in 1..DaysInMonth(y, store[y][i].month)

\* C28: after any navigation and clicks from an empty store, every entry has
\* a month in 0..11 and a day in 1..daysInMonth(year, month), so no 29
\* February in a year that is no leap year, and a click stores its entry
\* under the displayed year and month
C28_StoredDatesValid ==
    /\ []ValidDates(workedDays)
    /\ [][(last'.op = "dayClick" /\ last'.called /\ last'.shiftType # << >>)
             => Holds(workedDays', selectedYear, selectedMonth, last'.date,
                      last'.shiftType)]_vars

\* the store holds the last day of February 2023 and a day of another
\* month, the model having clicked a cell of January shown in the grid of
\* February
C28_Witness ==
    /\ \E t \in StoredTypes(workedDays) : Holds(workedDays, 2023, 1, 28, t)
    /\ \E i \in 1..Len(YearDays(workedDays, 2023)) :
           YearDays(workedDays, 2023)[i].month # 1
    /\ last.op = "dayClick" /\ last.date = 30 /\ ~last.isCurrentMonth
    /\ selectedMonth = 1

\* ------------------------------------------------------------------
\* Navigation

\* next and then prev, and prev and then next, from (y, m)
NextThenPrev(y, m) ==
    LET there == MonthAfter(y, m, "next")
    IN  MonthAfter(there[1], there[2], "prev")

PrevThenNext(y, m) ==
    LET there == MonthAfter(y, m, "prev")
    IN  MonthAfter(there[1], there[2], "next")

\* C29: navigation keeps the displayed month in 0..11; next from month 11
\* gives month 0 of the next year and prev from month 0 gives month 11 of
\* the year before, any other step moving the month by one within the
\* year; next following prev and prev following next return to the same
\* year and month; navigation leaves the store unchanged
C29_Navigation ==
    /\ [](/\ selectedMonth \in 0..11
          /\ NextThenPrev(selectedYear, selectedMonth)
                 = <<selectedYear, selectedMonth>>
          /\ PrevThenNext(selectedYear, selectedMonth)
                 = <<selectedYear, selectedMonth>>)
    /\ [][last'.op = "monthChange" =>
             /\ workedDays' = workedDays
             /\ last'.from = <<selectedYear, selectedMonth>>
             /\ <<selectedYear', selectedMonth'>> =
                    IF last'.direction = "next"
                    THEN (IF selectedMonth = 11 THEN <<selectedYear + 1, 0>>
                          ELSE <<selectedYear, selectedMonth + 1>>)
                    ELSE (IF selectedMonth = 0 THEN <<selectedYear - 1, 11>>
                          ELSE <<selectedYear, selectedMonth - 1>>)]_vars

\* next has led from December 2023 to January 2024 with the store filled
C29_Witness ==
    /\ last.op = "monthChange" /\ last.direction = "next"
    /\ last.from = <<2023, 11>>
    /\ selectedYear = 2024 /\ selectedMonth = 0
    /\ StoreSize(workedDays) > 0

\* prev has led from January 2024 to December 2023
C29_PrevWrapped ==
    /\ last.op = "monthChange" /\ last.direction = "prev"
    /\ last.from = <<2024, 0>>
    /\ selectedYear = 2023 /\ selectedMonth = 11

\* ------------------------------------------------------------------
\* The language, saved and loaded

\* C30: the language that was active before a reload is the language after
\* it: the language state is that language, the 'language' key holds it,
\* and every entry of a built-in type has its label in that language
C30_LanguageSurvivesReload ==
    last.op = "reload" =>
        /\ language = last.language
        /\ PersistedNow.language = Stored(last.language)
        /\ \A i \in 1..Len(shiftTypes) :
               HasType(DEFAULT_SHIFT_TYPES, shiftTypes[i].type) =>
                   shiftTypes[i].label =
                       BuiltInLabel(shiftTypes[i].type, last.language)

====
